---------------------------- MODULE Spec2Model ----------------------------
(***************************************************************************)
(* Salonhub -> Klaviyo bridge: the SQLite buffer (src/src/database.py),    *)
(* the aggregator (src/src/processor.py), the Klaviyo client with its      *)
(* retry loop (src/src/klaviyo_client.py), the daily sync                  *)
(* (src/src/scheduler.py) and the webhook (src/src/routes/webhook.py).     *)
(*                                                                         *)
(* The specifications share the variables:                                 *)
(*   SpecAgg  the pure function aggregate_intentions on bounded inputs;    *)
(*   Spec     one run_daily_sync over a buffer filled beforehand, against  *)
(*            a downstream that answers every attempt as it likes;         *)
(*   SpecSys  the running service: the webhook, the clock and two sync     *)
(*            runs whose awaits interleave on one event loop;              *)
(*   SpecCrash  Spec with interrupted runs and a failing store;            *)
(*   SpecWork   Spec with a meter on the client, under fair scheduling;    *)
(*   SpecDb     mark_as_processed called twice;                            *)
(*   SpecConn   two store calls on connections of their own;               *)
(*   SpecHook   the webhook endpoint alone;                                *)
(*   SpecHealth the status query.                                          *)
(***************************************************************************)
EXTENDS Integers, Sequences, FiniteSets, TLC

VARIABLES
    aggIn,      \* SpecAgg: the list handed to aggregate_intentions
    aggOut,     \* SpecAgg: the list it returned
    aggPc,      \* SpecAgg: "input" before the call, "done" after it
    mode,       \* settings.mode: "simple" | "extended"
    list_id,    \* settings.klaviyo_list_id: "" when not configured
    now,        \* the wall clock, in ticks (datetime('now') has 1 s resolution)
    db,         \* table intentions: the rows in id order, db[i].id = i
    run,        \* one record per run_daily_sync coroutine
    ack,        \* the answer of the latest webhook call
    webhook_secret, \* settings.webhook_secret: "" when not configured
    forwarded,  \* forwarded[i]: the process_contact calls row i was part of
    markCall,   \* SpecDb: two mark_as_processed calls with the same ids
    conn,       \* SpecConn: one record per open database connection
    health      \* SpecHealth: the state of one health_check call

vars == <<aggIn, aggOut, aggPc, mode, list_id, now, db, run, ack,
          webhook_secret, forwarded, markCall, conn, health>>

(***************************************************************************)
(* Bounds of the model.                                                    *)
(***************************************************************************)
MaxLen == 3         \* longest list handed to aggregate_intentions in SpecAgg
MaxBuf == 2         \* most rows of the buffer a run of Spec starts from
MaxRecords == 2     \* most rows the buffer holds in SpecSys
MaxDay == 1         \* last calendar day of the clock (days start at 0)
MaxSec == 0         \* last clock tick within one day (ticks start at 0)
MaxCrash == 1       \* a run is cut short only while no row was forwarded more often

(***************************************************************************)
(* Python values.  None is a value of its own; an str is either a TLA+     *)
(* string or, where the code looks inside it (emails), a sequence of       *)
(* one-character strings.                                                  *)
(***************************************************************************)
None == "None"

\* Python truthiness of an Optional[str]: None and "" are falsy.
Truthy(v) == v # None /\ v # ""

\* Truthiness of an email held as a sequence of characters.
TruthyStr(s) == Len(s) > 0

\* The upper-case letters and their lower-case forms.
LowerOf ==
    [A |-> "a", B |-> "b", C |-> "c", D |-> "d", E |-> "e", F |-> "f",
     G |-> "g", H |-> "h", I |-> "i", J |-> "j", K |-> "k", L |-> "l",
     M |-> "m", N |-> "n", O |-> "o", P |-> "p", Q |-> "q", R |-> "r",
     S |-> "s", T |-> "t", U |-> "u", V |-> "v", W |-> "w", X |-> "x",
     Y |-> "y", Z |-> "z"]

\* str.lower() on one character.
LowerChar(c) == IF c \in DOMAIN LowerOf THEN LowerOf[c] ELSE c

\* str.lower(): every character lowered, length kept.
Lower(s) == [i \in 1..Len(s) |-> LowerChar(s[i])]

IsSpace(c) == c = " "

RECURSIVE LStrip(_)
\* str.lstrip(): drop the leading whitespace.
LStrip(s) ==
    IF s # <<>> /\ IsSpace(Head(s)) THEN LStrip(Tail(s)) ELSE s

RECURSIVE RStrip(_)
\* str.rstrip(): drop the trailing whitespace.
RStrip(s) ==
    IF s # <<>> /\ IsSpace(s[Len(s)]) THEN RStrip(SubSeq(s, 1, Len(s) - 1)) ELSE s

\* str.strip(): whitespace inside the string stays.
Strip(s) == RStrip(LStrip(s))

\* sub in s, for two strings.
Contains(s, sub) ==
    \E i \in 0..(Len(s) - Len(sub)) : SubSeq(s, i + 1, i + Len(sub)) = sub

(***************************************************************************)
(* models.py                                                               *)
(***************************************************************************)
INTENTION == "intention"
APPOINTMENT == "appointment"
IntentionType == {INTENTION, APPOINTMENT}

\* The fields the webhook takes from payload.customer / payload.appointment.
\* raw_payload is an opaque string no code of the core reads; it is left out.
ProfileFields == {"first_name", "last_name", "phone", "campaign_source"}
DetailFields ==
    {"salon_id", "salon_name", "stylist_id", "stylist_name",
     "treatment", "price", "appointment_date"}

\* A BufferedIntention as get_unprocessed_intentions builds it from a row.
BufferedIntention(id, email, kind, profile, detail, created, processed) ==
    [id |-> id, email |-> email,
     first_name |-> profile.first_name, last_name |-> profile.last_name,
     phone |-> profile.phone, intention_type |-> kind,
     salon_id |-> detail.salon_id, salon_name |-> detail.salon_name,
     stylist_id |-> detail.stylist_id, stylist_name |-> detail.stylist_name,
     treatment |-> detail.treatment, price |-> detail.price,
     appointment_date |-> detail.appointment_date,
     campaign_source |-> profile.campaign_source,
     created_at |-> created, processed |-> processed]

(***************************************************************************)
(* processor.py                                                            *)
(***************************************************************************)
\* The lowercase-and-trim step alone, without the grouping around it.
GroupKeyRaw(r) == r.email

\* processor.py:30  the dict key: intention.email.lower().strip()
GroupKey(r) == Strip(Lower(r.email))

RECURSIVE KeysOf(_, _)
\* by_email's keys in insertion order (a dict keeps it): every record with
\* a truthy email adds its key the first time the key is seen.
KeysOf(intentions, seen) ==
    IF intentions = <<>> THEN <<>>
    ELSE LET r == Head(intentions)
         IN  IF TruthyStr(r.email) /\ GroupKey(r) \notin seen
             THEN <<GroupKey(r)>> \o KeysOf(Tail(intentions), seen \cup {GroupKey(r)})
             ELSE KeysOf(Tail(intentions), seen)

\* by_email[key]: the records of one key, in input order.
GroupOf(intentions, key) ==
    SelectSeq(intentions, LAMBDA r : TruthyStr(r.email) /\ GroupKey(r) = key)

\* A count that forgets the kind.
CountAll(records, kind) == Len(records)

\* sum(1 for r in records if r.intention_type == kind)
CountKind(records, kind) ==
    Len(SelectSeq(records, LAMBDA r : r.intention_type = kind))

\* max(records, key=lambda r: r.created_at or r.appointment_date or r.created_at):
\* a row always has created_at (NOT NULL DEFAULT datetime('now')) and a
\* datetime is truthy, so the key is created_at; Python's max returns the
\* FIRST element that has the greatest key.
PyMax(records) ==
    LET best == CHOOSE i \in 1..Len(records) :
                    /\ \A j \in 1..Len(records) : records[j].created_at <= records[i].created_at
                    /\ \A j \in 1..(i-1) : records[j].created_at < records[i].created_at
    IN  records[best]

RECURSIVE FirstNonEmptyForward(_, _)
\* A scan in input order, oldest record first.
FirstNonEmptyForward(records, fld) ==
    IF records = <<>> THEN None
    ELSE IF Truthy(Head(records)[fld]) THEN Head(records)[fld]
    ELSE FirstNonEmptyForward(Tail(records), fld)

RECURSIVE FirstNonEmpty(_, _)
\* _first_non_empty: for record in reversed(records): return the first
\* truthy value; None when the loop ends without one.
FirstNonEmpty(records, fld) ==
    IF records = <<>> THEN None
    ELSE IF Truthy(records[Len(records)][fld]) THEN records[Len(records)][fld]
    ELSE FirstNonEmpty(SubSeq(records, 1, Len(records) - 1), fld)

\* The event name chosen from the full record count.
EventNameAny(records) ==
    IF Len(records) > 0 THEN "appointmentMade" ELSE "appointmentIntention"

\* processor.py:39-42
EventName(records) ==
    IF CountKind(records, APPOINTMENT) > 0
    THEN "appointmentMade" ELSE "appointmentIntention"

\* processor.py:45-49  appointments[-1] if appointments else latest
DetailRecord(records) ==
    LET latest == PyMax(records)
        appointments == SelectSeq(records, LAMBDA r : r.intention_type = APPOINTMENT)
    IN  IF appointments # <<>> THEN appointments[Len(appointments)] ELSE latest

\* processor.py:51-67  the ProcessedContact of one group.
ContactOf(email, records) ==
    LET detail_record == DetailRecord(records)
    IN  [email |-> email,
         first_name |-> FirstNonEmpty(records, "first_name"),
         last_name |-> FirstNonEmpty(records, "last_name"),
         phone |-> FirstNonEmpty(records, "phone"),
         event_name |-> EventName(records),
         salon_id |-> detail_record.salon_id,
         salon_name |-> detail_record.salon_name,
         stylist_id |-> detail_record.stylist_id,
         stylist_name |-> detail_record.stylist_name,
         treatment |-> detail_record.treatment,
         price |-> detail_record.price,
         appointment_date |-> detail_record.appointment_date,
         campaign_source |-> FirstNonEmpty(records, "campaign_source"),
         is_new_client |-> None,
         intention_count |-> CountKind(records, INTENTION),
         appointment_count |-> CountKind(records, APPOINTMENT)]

\* aggregate_intentions: one contact per key of by_email, in key order.
aggregate_intentions(intentions) ==
    LET keys == KeysOf(intentions, {})
    IN  [k \in 1..Len(keys) |-> ContactOf(keys[k], GroupOf(intentions, keys[k]))]

(***************************************************************************)
(* klaviyo_client.py                                                       *)
(***************************************************************************)
MAX_RETRIES == 3
INITIAL_BACKOFF == 1

\* What one HTTP attempt can come back with.
\*   ok_id     200, a JSON object holding a non-empty data.id
\*   ok_noid   200, a JSON object without data.id ({"data": {}}), or a
\*             falsy body ({}, [], null)
\*   ok_emptyid  200, a JSON object whose data.id is falsy ({"data": {"id": ""}})
\*   ok_nodict 200, a truthy JSON body that is no object, or whose "data"
\*             is no object ({"data": null}, {"data": "P1"}, [{"id": "P1"}])
\*   ok204     204, no body
\*   bad_json  200, a body response.json() cannot parse
\*   r429      429 without a Retry-After header
\*   r429_hint 429 with Retry-After: RetryAfterHint
\*   r429_bad  429 with a Retry-After that float() cannot parse (an HTTP date)
\*   e4xx      a 4xx other than 429;  e5xx  a 5xx;  conn  httpx.RequestError
Responses ==
    {"ok_id", "ok_noid", "ok_emptyid", "ok_nodict", "ok204", "bad_json",
     "r429", "r429_hint", "r429_bad", "e4xx", "e5xx", "conn"}

RateLimited == {"r429", "r429_hint", "r429_bad"}
StatusErrors == {"e4xx", "e5xx"}
HardFailures == {"e4xx", "e5xx", "conn"}
Failures == RateLimited \cup HardFailures

\* The value of the Retry-After header in r429_hint, in seconds.
RetryAfterHint == 7

\* A retry loop that gives up on a status error at once.
RequestStepNoRetry(attempt, backoff, resp) ==
    CASE resp = "ok_id" -> [kind |-> "return", value |-> "json_id", wait |-> 0]
      [] resp = "ok_noid" -> [kind |-> "return", value |-> "json_noid", wait |-> 0]
      [] resp = "ok_emptyid" ->
            [kind |-> "return", value |-> "json_emptyid", wait |-> 0]
      [] resp = "ok_nodict" ->
            [kind |-> "return", value |-> "json_nodict", wait |-> 0]
      [] resp = "ok204" -> [kind |-> "return", value |-> None, wait |-> 0]
      [] resp = "bad_json" -> [kind |-> "raise", value |-> "ValueError", wait |-> 0]
      [] resp = "r429_bad" -> [kind |-> "raise", value |-> "ValueError", wait |-> 0]
      [] resp \in {"r429", "r429_hint"} ->
            [kind |-> IF attempt = MAX_RETRIES THEN "return" ELSE "retry",
             value |-> None,
             wait |-> IF resp = "r429_hint" THEN RetryAfterHint ELSE backoff]
      [] resp \in StatusErrors ->
            [kind |-> "raise", value |-> "HTTPStatusError", wait |-> 0]
      [] resp = "conn" ->
            IF attempt = MAX_RETRIES
            THEN [kind |-> "raise", value |-> "RequestError", wait |-> 0]
            ELSE [kind |-> "retry", value |-> None, wait |-> backoff]

\* A retry loop that does not read the Retry-After header.
RequestStepNoHint(attempt, backoff, resp) ==
    CASE resp = "ok_id" -> [kind |-> "return", value |-> "json_id", wait |-> 0]
      [] resp = "ok_noid" -> [kind |-> "return", value |-> "json_noid", wait |-> 0]
      [] resp = "ok_emptyid" ->
            [kind |-> "return", value |-> "json_emptyid", wait |-> 0]
      [] resp = "ok_nodict" ->
            [kind |-> "return", value |-> "json_nodict", wait |-> 0]
      [] resp = "ok204" -> [kind |-> "return", value |-> None, wait |-> 0]
      [] resp = "bad_json" -> [kind |-> "raise", value |-> "ValueError", wait |-> 0]
      [] resp \in RateLimited ->
            [kind |-> IF attempt = MAX_RETRIES THEN "return" ELSE "retry",
             value |-> None, wait |-> backoff]
      [] resp \in StatusErrors ->
            IF attempt = MAX_RETRIES
            THEN [kind |-> "raise", value |-> "HTTPStatusError", wait |-> 0]
            ELSE [kind |-> "retry", value |-> None, wait |-> backoff]
      [] resp = "conn" ->
            IF attempt = MAX_RETRIES
            THEN [kind |-> "raise", value |-> "RequestError", wait |-> 0]
            ELSE [kind |-> "retry", value |-> None, wait |-> backoff]

\* A retry loop that goes on for as long as the downstream rate-limits.
RequestStepUnbounded(attempt, backoff, resp) ==
    IF resp \in {"r429", "r429_hint"}
    THEN [kind |-> "retry", value |-> None,
          wait |-> IF resp = "r429_hint" THEN RetryAfterHint ELSE backoff]
    ELSE RequestStepNoRetry(attempt, backoff, resp)

\* One pass of the for loop of _request, given the response of this attempt:
\*   "return" value   the call returns value (None, or the parsed JSON)
\*   "raise"  value   the exception value leaves _request
\*   "retry"          the loop slept wait seconds, doubled backoff, and goes
\*                    on to attempt + 1
\* A 429 sleeps and continues even on the last attempt; the loop then ends
\* and line 81 returns None.
RequestStep(attempt, backoff, resp) ==
    CASE resp = "ok_id" -> [kind |-> "return", value |-> "json_id", wait |-> 0]
      [] resp = "ok_noid" -> [kind |-> "return", value |-> "json_noid", wait |-> 0]
      [] resp = "ok_emptyid" ->
            [kind |-> "return", value |-> "json_emptyid", wait |-> 0]
      [] resp = "ok_nodict" ->
            [kind |-> "return", value |-> "json_nodict", wait |-> 0]
      [] resp = "ok204" -> [kind |-> "return", value |-> None, wait |-> 0]
      [] resp = "bad_json" -> [kind |-> "raise", value |-> "ValueError", wait |-> 0]
      [] resp = "r429_bad" -> [kind |-> "raise", value |-> "ValueError", wait |-> 0]
      [] resp \in {"r429", "r429_hint"} ->
            [kind |-> IF attempt = MAX_RETRIES THEN "return" ELSE "retry",
             value |-> None,
             wait |-> IF resp = "r429_hint" THEN RetryAfterHint ELSE backoff]
      [] resp \in StatusErrors ->
            IF attempt = MAX_RETRIES
            THEN [kind |-> "raise", value |-> "HTTPStatusError", wait |-> 0]
            ELSE [kind |-> "retry", value |-> None, wait |-> backoff]
      [] resp = "conn" ->
            IF attempt = MAX_RETRIES
            THEN [kind |-> "raise", value |-> "RequestError", wait |-> 0]
            ELSE [kind |-> "retry", value |-> None, wait |-> backoff]

\* upsert_profile lines 124-126: profile_id = result.get("data", {}).get("id")
\* when _request's result is truthy, else None.
ProfileId(value) ==
    CASE value = "json_id" -> "profile"
      [] value = "json_emptyid" -> ""
      [] OTHER -> None

\* upsert_profile lines 122-129 given the outcome o of its _request: on a
\* truthy result that is no object with an object (or nothing) under
\* "data", .get raises AttributeError; else the outcome is _request's.
upsert_profile(o) ==
    IF o.kind = "return" /\ o.value = "json_nodict"
    THEN [kind |-> "raise", value |-> "AttributeError", wait |-> 0]
    ELSE o

\* The outcome of the call of process_contact named step (upsert_profile,
\* add_to_list or create_event) whose _request ended with o: add_to_list
\* and create_event do not read the result.
StepOutcome(step, o) == IF step = "upsert" THEN upsert_profile(o) ELSE o

\* process_contact after add_to_list: create_event sends a request only in
\* extended mode; otherwise process_contact returns True.
AfterList == IF mode = "extended" THEN "event" ELSE "true"

\* A process_contact that calls add_to_list without looking at profile_id.
AfterUpsertAlways(value) == IF list_id # "" THEN "list" ELSE AfterList

\* process_contact after upsert_profile returned value: add_to_list is
\* called when profile_id is truthy and sends a request when list_id is set.
AfterUpsert(value) ==
    IF Truthy(ProfileId(value)) /\ list_id # "" THEN "list" ELSE AfterList

\* process_contact lines 216-218: except Exception -> return False.
OnException(exc) == "false"

\* Where process_contact goes when the _request of `step` has ended with
\* outcome o (a "return" or a "raise" of RequestStep): the next step that
\* sends a request, or the result of process_contact ("true" / "false"),
\* or "raised" if an exception were to leave it.
Continue(step, o) ==
    LET s == StepOutcome(step, o)
    IN  IF s.kind = "raise" THEN OnException(s.value)
        ELSE CASE step = "upsert" -> AfterUpsert(s.value)
               [] step = "list" -> AfterList
               [] step = "event" -> "true"

(***************************************************************************)
(* database.py                                                             *)
(***************************************************************************)
\* Clock ticks in one calendar day.
TicksPerDay == MaxSec + 1

\* The clock values of the model.
Times == 0..(TicksPerDay * (MaxDay + 1) - 1)

\* SQLite's date(created_at): the calendar day of a timestamp.
Date(ts) == ts \div TicksPerDay

\* An insert that replaces the row of the same email, if there is one.
save_intention_replace(rows, intention, clock) ==
    IF \E i \in 1..Len(rows) : rows[i].email = intention.email
    THEN [i \in 1..Len(rows) |->
            IF rows[i].email = intention.email
            THEN [intention EXCEPT !.id = i, !.created_at = clock,
                                   !.processed = FALSE]
            ELSE rows[i]]
    ELSE Append(rows, [intention EXCEPT !.id = Len(rows) + 1,
                                        !.created_at = clock,
                                        !.processed = FALSE])

\* save_intention: INSERT one row; AUTOINCREMENT gives it the next id (no
\* row is ever deleted, so that is the row count plus one), created_at
\* defaults to datetime('now') and processed to 0.
save_intention(rows, intention, clock) ==
    Append(rows, [intention EXCEPT !.id = Len(rows) + 1,
                                   !.created_at = clock,
                                   !.processed = FALSE])

RECURSIVE InsertByCreated(_, _)
\* One step of ORDER BY created_at ASC: r goes after every row that is not
\* newer than it (rows of equal created_at stay in id order).
InsertByCreated(sorted, r) ==
    IF sorted = <<>> THEN <<r>>
    ELSE IF sorted[Len(sorted)].created_at <= r.created_at THEN Append(sorted, r)
    ELSE Append(InsertByCreated(SubSeq(sorted, 1, Len(sorted) - 1), r),
                sorted[Len(sorted)])

RECURSIVE OrderByCreated(_)
\* ORDER BY created_at ASC
OrderByCreated(rows) ==
    IF rows = <<>> THEN <<>>
    ELSE InsertByCreated(OrderByCreated(SubSeq(rows, 1, Len(rows) - 1)),
                         rows[Len(rows)])

\* A fetch without the date filter.
get_unprocessed_all_dates(rows, target_date) ==
    OrderByCreated(SelectSeq(rows, LAMBDA r : ~r.processed))

\* get_unprocessed_intentions(target_date), target_date given:
\* WHERE processed = 0 AND date(created_at) = ? ORDER BY created_at ASC
get_unprocessed_intentions(rows, target_date) ==
    OrderByCreated(SelectSeq(rows,
        LAMBDA r : ~r.processed /\ Date(r.created_at) = target_date))

\* An update that flips the flag instead of setting it.
mark_toggle_processed(rows, intention_ids) ==
    IF intention_ids = <<>> THEN rows
    ELSE [i \in 1..Len(rows) |->
            IF \E k \in 1..Len(intention_ids) : intention_ids[k] = rows[i].id
            THEN [rows[i] EXCEPT !.processed = ~@] ELSE rows[i]]

\* mark_as_processed: nothing on an empty list; else one
\* UPDATE intentions SET processed = 1 WHERE id IN (...), committed at once.
mark_as_processed(rows, intention_ids) ==
    IF intention_ids = <<>> THEN rows
    ELSE [i \in 1..Len(rows) |->
            IF \E k \in 1..Len(intention_ids) : intention_ids[k] = rows[i].id
            THEN [rows[i] EXCEPT !.processed = TRUE] ELSE rows[i]]

\* The two-call harness of SpecDb: the ids, the table before the first call
\* and after it.
NoMarkCall == [pc |-> "off", ids |-> <<>>, before |-> <<>>, once |-> <<>>]

\* The callers that use the buffer store at the same time: each call of
\* save_intention or mark_as_processed opens a connection of its own
\* (database.py:59, 143).
Conns == {"c1", "c2"}

\* A connection record: pc is "closed" (no call), "called" (the call is
\* made, nothing executed yet), "written" (execute has run inside an open
\* transaction, not committed), "committed" (the commit has taken effect,
\* the call has not returned) or "done" (committed and returned).  op is
\* "save" with `intention` or "mark" with `ids`; staged is the table as the
\* open transaction sees it, row_id is cursor.lastrowid; start (the table
\* when the call was made) records what happened, the code does not read it.
ClosedConn ==
    [pc |-> "closed", op |-> "none", intention |-> <<>>, ids |-> <<>>,
     staged |-> <<>>, row_id |-> 0, start |-> <<>>]

\* No connection is open.
NoConn == [c \in Conns |-> ClosedConn]

\* A file without a write lock: every statement runs at once.
NoWriteLock(c) == TRUE

\* SQLite lets one connection write at a time: from the execute of an
\* INSERT or UPDATE (sqlite3 opens the transaction with it) to the commit,
\* the statements of the other connections wait.
WriteLockFree(c) == \A o \in Conns \ {c} : conn[o].pc # "written"

\* database.py:141-142  mark_as_processed with no ids returns at once.
MarkNothing(c) ==
    /\ conn[c].pc = "called"
    /\ conn[c].op = "mark" /\ conn[c].ids = <<>>
    /\ conn' = [conn EXCEPT ![c].pc = "done"]
    /\ UNCHANGED <<aggIn, aggOut, aggPc, mode, list_id, now, db, run, ack,
                 webhook_secret, forwarded, markCall, health>>

\* database.py:60-84, 145-148  await db.execute(...): the INSERT or the
\* UPDATE runs in this connection's transaction; the new row gets the next
\* id of the table.
Execute(c) ==
    /\ conn[c].pc = "called"
    /\ ~(conn[c].op = "mark" /\ conn[c].ids = <<>>)
    /\ WriteLockFree(c)
    /\ LET cn == conn[c]
       IN  conn' = [conn EXCEPT ![c] =
                IF cn.op = "save"
                THEN [cn EXCEPT !.pc = "written",
                        !.staged = save_intention(db, cn.intention[1], now),
                        !.row_id = Len(db) + 1]
                ELSE [cn EXCEPT !.pc = "written",
                        !.staged = mark_as_processed(db, cn.ids)]]
    /\ UNCHANGED <<aggIn, aggOut, aggPc, mode, list_id, now, db, run, ack,
                 webhook_secret, forwarded, markCall, health>>

\* database.py:85-88, 149  await db.commit(): the transaction becomes the
\* table, the lock is released, the call returns.
Commit(c) ==
    /\ conn[c].pc = "written"
    /\ db' = conn[c].staged
    /\ forwarded' = [i \in 1..Len(db') |->
                        IF i <= Len(forwarded) THEN forwarded[i] ELSE 0]
    /\ conn' = [conn EXCEPT ![c].pc = "done"]
    /\ UNCHANGED <<aggIn, aggOut, aggPc, mode, list_id, now, run, ack,
                 webhook_secret, markCall, health>>

\* get_intention_count: SELECT COUNT(*) ... WHERE processed = 0 on the
\* table as it is at the first statement, SELECT COUNT(*) on the table as
\* it is at the second, and their difference.
get_intention_count(first, second) ==
    LET unprocessed == Len(SelectSeq(first, LAMBDA r : ~r.processed))
        total == Len(second)
    IN  [total |-> total, unprocessed |-> unprocessed,
         processed |-> total - unprocessed]

\* health_check has not been called.  pc is "off", "probe" (in
\* check_connection, awaiting the response of attempt `attempt` of its
\* _request), "count" (check_connection has returned status `klaviyo`,
\* awaiting the first SELECT of get_intention_count), "total" (the first
\* SELECT has read the table `first`, awaiting the second) or "done"
\* (returned, with the counts in `buffer`); seen lists the responses the
\* probe got.
NoHealth ==
    [pc |-> "off", attempt |-> 0, backoff |-> 0, seen |-> <<>>,
     klaviyo |-> "none", first |-> <<>>, buffer |-> <<>>]

(***************************************************************************)
(* routes/health.py and KlaviyoClient.check_connection                     *)
(***************************************************************************)
\* health.py:21, klaviyo_client.py:222-223  GET /health: check_connection
\* sends the first attempt of its probe request.
HealthCall ==
    /\ health.pc = "off"
    /\ health' = [health EXCEPT !.pc = "probe", !.attempt = 1,
                                !.backoff = INITIAL_BACKOFF]
    /\ UNCHANGED <<aggIn, aggOut, aggPc, mode, list_id, now, db, run, ack,
                 webhook_secret, forwarded, markCall, conn>>

\* klaviyo_client.py:222-234  one pass of _request's loop on the response
\* of the pending attempt; when _request returns (whatever it returns)
\* check_connection returns "connected", when it raises, "error".
HealthRespond(resp) ==
    /\ health.pc = "probe"
    /\ LET o == RequestStep(health.attempt, health.backoff, resp)
           seen == Append(health.seen, resp)
       IN  health' =
            IF o.kind = "retry"
            THEN [health EXCEPT !.attempt = @ + 1, !.backoff = @ * 2,
                                !.seen = seen]
            ELSE [health EXCEPT !.pc = "count", !.seen = seen,
                    !.klaviyo = IF o.kind = "return" THEN "connected"
                                ELSE "error"]
    /\ UNCHANGED <<aggIn, aggOut, aggPc, mode, list_id, now, db, run, ack,
                 webhook_secret, forwarded, markCall, conn>>

\* database.py:155-158  the first SELECT of get_intention_count reads the
\* committed table.
HealthCountUnprocessed ==
    /\ health.pc = "count"
    /\ health' = [health EXCEPT !.pc = "total", !.first = db]
    /\ UNCHANGED <<aggIn, aggOut, aggPc, mode, list_id, now, db, run, ack,
                 webhook_secret, forwarded, markCall, conn>>

\* database.py:160-164, health.py:22-29  the second SELECT reads the
\* table as it is now; the counts are put together and the answer is
\* returned.
HealthCount ==
    /\ health.pc = "total"
    /\ health' = [health EXCEPT !.pc = "done", !.first = <<>>,
                    !.buffer = <<get_intention_count(health.first, db)>>]
    /\ UNCHANGED <<aggIn, aggOut, aggPc, mode, list_id, now, db, run, ack,
                 webhook_secret, forwarded, markCall, conn>>

(***************************************************************************)
(* routes/webhook.py                                                       *)
(***************************************************************************)
NoProfile ==
    [first_name |-> None, last_name |-> None, phone |-> None,
     campaign_source |-> None]
NoDetail ==
    [salon_id |-> None, salon_name |-> None, stylist_id |-> None,
     stylist_name |-> None, treatment |-> None, price |-> None,
     appointment_date |-> None]
CutDetail ==
    [salon_id |-> "s1", salon_name |-> "Salon", stylist_id |-> "k1",
     stylist_name |-> "Kim", treatment |-> "cut", price |-> "25.0",
     appointment_date |-> "d1"]

EmailA == <<"A", "@", "x">>          \* "A@x"
EmailASpace == <<"a", "@", "x", " ">>  \* "a@x "
EmailB == <<"b", "@", "x">>          \* "b@x"
NoEmail == <<>>                      \* no email could be extracted

\* The words the handler looks for.
Appointment == <<"a", "p", "p", "o", "i", "n", "t", "m", "e", "n", "t">>
Cancel == <<"c", "a", "n", "c", "e", "l">>

\* The event types of models.py:20-24, and some that Salonhub may send as
\* well: the event_type field is a free string.  NoEventType stands for a
\* missing (None) or empty event type, which are both falsy.
APPOINTMENT_CREATED == Appointment \o <<".", "c", "r", "e", "a", "t", "e", "d">>
APPOINTMENT_CANCELLED == Appointment \o <<".">> \o Cancel \o <<"l", "e", "d">>
EVENT_INTENTION == <<"i", "n", "t", "e", "n", "t", "i", "o", "n">>
UpperUpdated ==     \* "APPOINTMENT.UPDATED"
    <<"A", "P", "P", "O", "I", "N", "T", "M", "E", "N", "T", ".",
      "U", "P", "D", "A", "T", "E", "D">>
CancelOfAppointment ==   \* "Cancel appointment"
    <<"C", "a", "n", "c", "e", "l", " ">> \o Appointment
NoEventType == <<>>

\* webhook.py:78-81  the type is appointment when the event type is truthy
\* and, lower-cased, holds "appointment" and does not hold "cancel".
TypeOfEvent(event_type) ==
    IF /\ TruthyStr(event_type)
       /\ Contains(Lower(event_type), Appointment)
       /\ ~Contains(Lower(event_type), Cancel)
    THEN APPOINTMENT ELSE INTENTION

\* The notifications Salonhub sends in the model: the email the handler
\* extracts (lines 84-91), the event type and the customer / appointment
\* blocks; body tells a JSON object from other bytes.
WebhookPayloads ==
    {[body |-> "object", email |-> EmailA, event_type |-> EVENT_INTENTION,
      profile |-> NoProfile, detail |-> NoDetail],
     [body |-> "object", email |-> EmailASpace,
      event_type |-> APPOINTMENT_CREATED,
      profile |-> [NoProfile EXCEPT !.first_name = "Ann"], detail |-> CutDetail],
     [body |-> "object", email |-> EmailB, event_type |-> EVENT_INTENTION,
      profile |-> [NoProfile EXCEPT !.phone = "06"], detail |-> NoDetail],
     [body |-> "object", email |-> NoEmail,
      event_type |-> APPOINTMENT_CANCELLED,
      profile |-> NoProfile, detail |-> NoDetail]}

\* Notifications with event types outside models.py:20-24.
OtherEventPayloads ==
    {[body |-> "object", email |-> EmailB, event_type |-> UpperUpdated,
      profile |-> NoProfile, detail |-> NoDetail],
     [body |-> "object", email |-> EmailB, event_type |-> CancelOfAppointment,
      profile |-> NoProfile, detail |-> NoDetail]}

\* webhook.py:98-112  the BufferedIntention built from a payload; the
\* handler passes no campaign_source, so the column stays NULL.
IntentionOf(p) ==
    BufferedIntention(None, p.email, TypeOfEvent(p.event_type),
                      [p.profile EXCEPT !.campaign_source = None],
                      p.detail, 0, FALSE)

\* A body of text json.loads cannot parse (it raises JSONDecodeError).
NotJson ==
    [body |-> "not JSON", email |-> NoEmail, event_type |-> NoEventType,
     profile |-> NoProfile, detail |-> NoDetail]

\* A body that is not UTF-8 (b"\xff"): json.loads raises UnicodeDecodeError.
NotUtf8 == [NotJson EXCEPT !.body = "not UTF-8"]

\* What a caller can post: a notification, or bytes that are not JSON.
Bodies == WebhookPayloads \cup OtherEventPayloads \cup {NotJson, NotUtf8}

\* The header X-Webhook-Signature.  HMAC-SHA256 is taken as collision-free:
\* the digest of body under key is the pair of them.
NoSignature ==      \* the header is missing (None)
    [present |-> FALSE, ascii |-> TRUE, scheme |-> "", key |-> "",
     body |-> NotJson]
EmptySignature ==   \* the header is there and empty
    [present |-> TRUE, ascii |-> TRUE, scheme |-> "", key |-> "",
     body |-> NotJson]
\* "sha256=" + hmac.new(key, body, sha256).hexdigest()
Sign(key, body) ==
    [present |-> TRUE, ascii |-> TRUE, scheme |-> "sha256=", key |-> key,
     body |-> body]
\* A header that holds a character outside ASCII, with or without the
\* "sha256=" in front ('sha256=\xe9', '\xe9').
NonAscii(scheme) ==
    [present |-> TRUE, ascii |-> FALSE, scheme |-> scheme, key |-> "",
     body |-> NotJson]
\* The hex digest without the "sha256=" in front.
HexOnly(key, body) == [Sign(key, body) EXCEPT !.scheme = ""]

\* The keys a sender signs with: the one of the service, or another.
SenderKeys == {"k1", "k2"}

\* The values of webhook_secret: not configured, or the key "k1".
Secrets == {"", "k1"}

Signatures ==
    {NoSignature, EmptySignature}
    \cup {Sign(k, b) : k \in SenderKeys, b \in Bodies}
    \cup {HexOnly(k, b) : k \in SenderKeys, b \in Bodies}
    \cup {NonAscii("sha256="), NonAscii("")}

\* Python truthiness of the header value.
SigTruthy(sig) == sig.present /\ sig # EmptySignature

\* verify_signature: True without a configured secret; False when the
\* header is missing or empty; else hmac.compare_digest of two str, which
\* raises TypeError when the header holds a character outside ASCII and
\* otherwise says whether the header equals "sha256=" + the digest of the
\* body under the secret.  The result is "true", "false" or the name of
\* the exception.
verify_signature(payload_body, signature) ==
    IF webhook_secret = "" THEN "true"
    ELSE IF ~SigTruthy(signature) THEN "false"
    ELSE IF ~signature.ascii THEN "TypeError"
    ELSE IF signature = Sign(webhook_secret, payload_body) THEN "true"
    ELSE "false"

\* An ack holds the answer of the latest call of the handler together with
\* the header and the body that call came with; status "pending" says that
\* the call has not answered yet (it is inside save_intention), "cancelled"
\* that its task was cancelled there and no answer is given.
NoAck ==
    [status |-> "none", id |-> 0, http |-> 0,
     signature |-> NoSignature, body |-> NotJson]

\* webhook.py:60, 66, 95, 118-122  the answer to the call that came with
\* body p and header sig: a JSON object with "status", an HTTPException
\* (status "rejected") with its status code, or the 500 the server gives
\* when another exception leaves the handler (status "error").
Answer(p, sig, status, id, http) ==
    [status |-> status, id |-> id, http |-> http, signature |-> sig, body |-> p]

\* The connection the save_intention of the handler opens.
HookConn == "c1"

\* No connection is between its INSERT and its commit: an UPDATE of
\* another connection gets the write lock.
StoreUnlocked == \A c \in Conns : conn[c].pc # "written"

\* receive_salonhub_webhook up to the await of the commit: an unhandled
\* TypeError when verify_signature raises, 401 on a signature it refuses,
\* an unhandled UnicodeDecodeError on bytes that are not UTF-8 (line 65
\* catches JSONDecodeError only), 400 on text that is not JSON, "ignored"
\* when no email is found; else
\* save_intention has run its INSERT (database.py:59-84): the row has its
\* id and its created_at, and is not committed.  It sends nothing
\* downstream.  One notification is handled at a time.
Webhook(p, sig) ==
    /\ Len(db) < MaxRecords
    /\ conn[HookConn].pc = "closed"
    /\ IF verify_signature(p, sig) = "TypeError"
       THEN /\ ack' = Answer(p, sig, "error", 0, 500)
            /\ UNCHANGED conn
       ELSE IF verify_signature(p, sig) = "false"
       THEN /\ ack' = Answer(p, sig, "rejected", 0, 401)
            /\ UNCHANGED conn
       ELSE IF p = NotUtf8
       THEN /\ ack' = Answer(p, sig, "error", 0, 500)
            /\ UNCHANGED conn
       ELSE IF p = NotJson
       THEN /\ ack' = Answer(p, sig, "rejected", 0, 400)
            /\ UNCHANGED conn
       ELSE IF ~TruthyStr(p.email)
       THEN /\ ack' = Answer(p, sig, "ignored", 0, 200)
            /\ UNCHANGED conn
       ELSE /\ conn' = [conn EXCEPT ![HookConn] =
                    [ClosedConn EXCEPT
                        !.pc = "written", !.op = "save",
                        !.intention = <<IntentionOf(p)>>,
                        !.staged = save_intention(db, IntentionOf(p), now),
                        !.row_id = Len(db) + 1, !.start = db]]
            /\ ack' = Answer(p, sig, "pending", 0, 0)
    /\ UNCHANGED <<aggIn, aggOut, aggPc, mode, list_id, now, db, run,
                 webhook_secret, forwarded, markCall, health>>

\* database.py:85  await db.commit() of the handler's save_intention: the
\* row is in the table and the write lock is released; the handler has not
\* answered.
WebhookCommit ==
    /\ conn[HookConn].pc = "written" /\ ack.status = "pending"
    /\ db' = conn[HookConn].staged
    /\ forwarded' = Append(forwarded, 0)
    /\ conn' = [conn EXCEPT ![HookConn].pc = "committed"]
    /\ UNCHANGED <<aggIn, aggOut, aggPc, mode, list_id, now, run, ack,
                 webhook_secret, markCall, health>>

\* database.py:59, 86-88, webhook.py:114-122  the connection is closed on
\* leaving `async with`, save_intention returns cursor.lastrowid and the
\* handler, which awaits nothing more, answers "buffered" with that id.
WebhookReturn ==
    /\ conn[HookConn].pc = "committed" /\ ack.status = "pending"
    /\ ack' = [ack EXCEPT !.status = "buffered", !.http = 200,
                          !.id = conn[HookConn].row_id]
    /\ conn' = [conn EXCEPT ![HookConn] = ClosedConn]
    /\ UNCHANGED <<aggIn, aggOut, aggPc, mode, list_id, now, db, run,
                 webhook_secret, forwarded, markCall, health>>

\* The task of the handler is cancelled while it is inside save_intention:
\* CancelledError leaves the handler and no answer is given (status
\* "cancelled").  Cancelled before the commit was handed to the connection,
\* the INSERT is rolled back when the connection closes; cancelled at the
\* await of the commit or of the close, the row is in the table.
WebhookCancel ==
    /\ ack.status = "pending"
    /\ \/ /\ conn[HookConn].pc = "written"
          /\ UNCHANGED <<db, forwarded>>
       \/ /\ conn[HookConn].pc = "written"
          /\ db' = conn[HookConn].staged
          /\ forwarded' = Append(forwarded, 0)
       \/ /\ conn[HookConn].pc = "committed"
          /\ UNCHANGED <<db, forwarded>>
    /\ ack' = [ack EXCEPT !.status = "cancelled"]
    /\ conn' = [conn EXCEPT ![HookConn] = ClosedConn]
    /\ UNCHANGED <<aggIn, aggOut, aggPc, mode, list_id, now, run,
                 webhook_secret, markCall, health>>

(***************************************************************************)
(* scheduler.py: the state of one run_daily_sync coroutine.                *)
(*   pc = "idle"     not called                                            *)
(*        "fetched"  the SELECT of get_unprocessed_intentions has read     *)
(*                   `intentions`; awaiting the close of its connection    *)
(*        "request"  in process_contact for contacts[idx], awaiting the    *)
(*                   response of attempt `attempt` of the _request of      *)
(*                   `step` ("upsert" | "list" | "event")                  *)
(*        "resume"   that _request has ended with `outcome`                *)
(*        "tally"    process_contact has returned `ok`, its last call      *)
(*                   having ended with `outcome`                           *)
(*        "mark"     the loop is over, awaiting mark_as_processed          *)
(*        "done"     returned `result`                                     *)
(*        "raised"   an exception `error` has left run_daily_sync          *)
(* seen (the responses the current _request got), exhausted (some          *)
(* _request of the current contact used up its attempts on failures) and   *)
(* exhausted_count (contacts with such a call) record what happened; the   *)
(* code does not read them.                                                *)
(***************************************************************************)
Runs == {"scheduled", "manual"}

NoOutcome == [kind |-> "none", value |-> None, wait |-> 0]

\* called (a downstream request was sent in this run), marked
\* (mark_as_processed was called in this run) and before (the processed
\* flags of the table when the run fetched) record what happened; the code
\* does not read them.  requests counts the HTTP attempts the run has sent
\* when a meter is attached to the client (metered, in SpecWork only).
\* profile_id is process_contact's local variable.
IdleRun ==
    [pc |-> "idle", target |-> 0, intentions |-> <<>>, contacts |-> <<>>,
     idx |-> 0, success_count |-> 0, failed_count |-> 0,
     step |-> "none", attempt |-> 0, backoff |-> 0, wait |-> 0,
     seen |-> {}, outcome |-> NoOutcome, ok |-> "none",
     profile_id |-> None,
     exhausted |-> FALSE, exhausted_count |-> 0,
     called |-> FALSE, marked |-> FALSE, before |-> <<>>,
     metered |-> FALSE, requests |-> 0,
     error |-> None, result |-> <<>>]

\* scheduler.py:47-53, 67-73  the returned summary.
SyncResult(target_date, found, contacts, success, failed) ==
    [date |-> target_date, intentions_found |-> found,
     contacts_processed |-> contacts, success |-> success, failed |-> failed]

\* Ids marked only when every contact went through.
AllIdsOnSuccess(rn) ==
    IF rn.failed_count = 0
    THEN [i \in 1..Len(rn.intentions) |-> rn.intentions[i].id] ELSE <<>>

\* scheduler.py:64  all_ids = [i.id for i in intentions if i.id is not None]
\* (a row read from the table always has an id).
AllIds(rn) == [i \in 1..Len(rn.intentions) |-> rn.intentions[i].id]

\* The column processed of the table, in id order.
ProcessedFlags(rows) == [i \in 1..Len(rows) |-> rows[i].processed]

\* The ids of the rows of a snapshot that went into one contact.
GroupIds(intentions, contact) ==
    {intentions[k].id : k \in {j \in 1..Len(intentions) :
        TruthyStr(intentions[j].email) /\ GroupKey(intentions[j]) = contact.email}}

\* process_contact(contact) is called: every row of the contact's group has
\* been part of one more forward.
Forward(fw, intentions, contact) ==
    [i \in 1..Len(fw) |->
        IF i \in GroupIds(intentions, contact) THEN fw[i] + 1 ELSE fw[i]]

\* klaviyo_client.py:50  one more HTTP attempt goes out.
Sent(rn) == IF rn.metered THEN rn.requests + 1 ELSE rn.requests

\* The first await of process_contact(contacts[i]): upsert_profile's
\* _request, attempt 1 with backoff = INITIAL_BACKOFF.
BeginContact(rn, i) ==
    [rn EXCEPT !.pc = "request", !.idx = i, !.step = "upsert",
               !.attempt = 1, !.backoff = INITIAL_BACKOFF, !.wait = 0,
               !.seen = {}, !.outcome = NoOutcome, !.ok = "none",
               !.profile_id = None, !.exhausted = FALSE, !.called = TRUE,
               !.requests = Sent(rn)]

\* The for loop is over: what process_contact held is gone, the coroutine
\* awaits mark_as_processed.
EndLoop(rn) ==
    [rn EXCEPT !.pc = "mark", !.step = "none", !.attempt = 0, !.backoff = 0,
               !.wait = 0, !.seen = {}, !.outcome = NoOutcome, !.ok = "none",
               !.profile_id = None, !.exhausted = FALSE]

\* run_daily_sync up to the SELECT of get_unprocessed_intentions
\* (scheduler.py:29-35, database.py:93-109): the date is resolved and the
\* unprocessed rows of that date are read.  The coroutine then awaits the
\* close of the connection (the end of the async with), so other calls
\* act before it goes on.  `intentions` is the local variable of the code.
StartRun(r, target_date) ==
    /\ run[r].pc \in {"idle", "done", "raised"}
    /\ run' = [run EXCEPT ![r] =
            [IdleRun EXCEPT !.pc = "fetched", !.target = target_date,
                            !.metered = run[r].metered,
                            !.intentions =
                                get_unprocessed_intentions(db, target_date),
                            !.before = ProcessedFlags(db)]]
    /\ UNCHANGED <<aggIn, aggOut, aggPc, mode, list_id, now, db, ack,
                 webhook_secret, forwarded, markCall,
                 conn, health>>

\* A run without the early return on an empty fetch.
EnterLoopNoEarlyReturn(r) ==
    /\ run[r].pc = "fetched"
    /\ \E contacts \in {aggregate_intentions(run[r].intentions)} :
       \E fetched \in {[run[r] EXCEPT !.contacts = contacts]} :
           /\ run' = [run EXCEPT ![r] =
                IF contacts = <<>> THEN EndLoop(fetched)
                ELSE BeginContact(fetched, 1)]
           /\ forwarded' = IF contacts = <<>> THEN forwarded
                           ELSE Forward(forwarded, fetched.intentions,
                                        contacts[1])
    /\ UNCHANGED <<aggIn, aggOut, aggPc, mode, list_id, now, db, ack,
                 webhook_secret, markCall,
                 conn, health>>

\* run_daily_sync from the return of get_unprocessed_intentions to its
\* next await (scheduler.py:37-56): return zeros if no row was fetched,
\* else aggregate and enter the loop, where process_contact is called for
\* the first contact and sends its first request.  `contacts` is the
\* local variable of the code.
EnterLoop(r) ==
    /\ run[r].pc = "fetched"
    /\ \E contacts \in {aggregate_intentions(run[r].intentions)} :
       \E fetched \in {[run[r] EXCEPT !.contacts = contacts]} :
           /\ run' = [run EXCEPT ![r] =
                IF fetched.intentions = <<>>
                THEN [fetched EXCEPT !.pc = "done", !.contacts = <<>>,
                        !.result = <<SyncResult(fetched.target, 0, 0, 0, 0)>>]
                ELSE IF contacts = <<>> THEN EndLoop(fetched)
                ELSE BeginContact(fetched, 1)]
           /\ forwarded' = IF contacts = <<>> THEN forwarded
                           ELSE Forward(forwarded, fetched.intentions,
                                        contacts[1])
    /\ UNCHANGED <<aggIn, aggOut, aggPc, mode, list_id, now, db, ack,
                 webhook_secret, markCall,
                 conn, health>>

\* One pass of _request's loop (with its sleep) on the response of the
\* pending attempt: the call ends unless the loop goes round again.
RespondRun(rn, resp) ==
    LET o == RequestStep(rn.attempt, rn.backoff, resp)
        seen == rn.seen \cup {resp}
    IN  IF o.kind = "retry"
        THEN [rn EXCEPT !.attempt = rn.attempt + 1,
                        !.backoff = rn.backoff * 2,
                        !.wait = o.wait, !.seen = seen,
                        !.requests = Sent(rn)]
        ELSE [rn EXCEPT !.pc = "resume", !.outcome = o, !.seen = seen,
                        !.wait = o.wait,
                        !.exhausted = rn.exhausted
                            \/ (rn.attempt = MAX_RETRIES /\ resp \in Failures)]

\* process_contact goes on after its _request: to the next call that
\* sends a request, or to its return.
ResumeRun(rn) ==
    LET nxt == Continue(rn.step, rn.outcome)
        ended == StepOutcome(rn.step, rn.outcome)
        pid == IF rn.step = "upsert" /\ ended.kind = "return"
               THEN ProfileId(ended.value) ELSE rn.profile_id
    IN  CASE nxt \in {"list", "event"} ->
                [rn EXCEPT !.pc = "request", !.step = nxt, !.attempt = 1,
                           !.backoff = INITIAL_BACKOFF, !.wait = 0,
                           !.seen = {}, !.outcome = NoOutcome,
                           !.profile_id = pid, !.requests = Sent(rn)]
          [] nxt \in {"true", "false"} ->
                [rn EXCEPT !.pc = "tally", !.ok = nxt, !.profile_id = pid,
                           !.outcome = ended, !.seen = {}, !.wait = 0]
          [] OTHER ->
                [rn EXCEPT !.pc = "raised", !.error = ended.value]

\* A loop that counts the successes only.
TallyRunSuccessOnly(rn) ==
    LET counted == [rn EXCEPT
            !.success_count = IF rn.ok = "true" THEN @ + 1 ELSE @,
            !.exhausted_count = IF rn.exhausted THEN @ + 1 ELSE @]
    IN  IF rn.idx < Len(rn.contacts)
        THEN BeginContact(counted, rn.idx + 1)
        ELSE EndLoop(counted)

\* scheduler.py:56-60  count the result, then the next contact or the end
\* of the loop.
TallyRun(rn) ==
    LET counted == [rn EXCEPT
            !.success_count = IF rn.ok = "true" THEN @ + 1 ELSE @,
            !.failed_count = IF rn.ok = "true" THEN @ ELSE @ + 1,
            !.exhausted_count = IF rn.exhausted THEN @ + 1 ELSE @]
    IN  IF rn.idx < Len(rn.contacts)
        THEN BeginContact(counted, rn.idx + 1)
        ELSE EndLoop(counted)

\* The rows forwarded once more when the loop goes on from rn.
TallyForward(fw, rn) ==
    IF rn.idx < Len(rn.contacts)
    THEN Forward(fw, rn.intentions, rn.contacts[rn.idx + 1])
    ELSE fw

\* The response of the pending attempt arrives.
Respond(r, resp) ==
    /\ run[r].pc = "request"
    /\ run' = [run EXCEPT ![r] = RespondRun(run[r], resp)]
    /\ UNCHANGED <<aggIn, aggOut, aggPc, mode, list_id, now, db, ack,
                 webhook_secret, forwarded, markCall,
                 conn, health>>

\* process_contact goes on after its _request.
Resume(r) ==
    /\ run[r].pc = "resume"
    /\ run' = [run EXCEPT ![r] = ResumeRun(run[r])]
    /\ UNCHANGED <<aggIn, aggOut, aggPc, mode, list_id, now, db, ack,
                 webhook_secret, forwarded, markCall,
                 conn, health>>

\* run_daily_sync counts what process_contact returned and loops.
Tally(r) ==
    /\ run[r].pc = "tally"
    /\ run' = [run EXCEPT ![r] = TallyRun(run[r])]
    /\ forwarded' = TallyForward(forwarded, run[r])
    /\ UNCHANGED <<aggIn, aggOut, aggPc, mode, list_id, now, db, ack,
                 webhook_secret, markCall,
                 conn, health>>

\* One turn of the event loop for a run awaiting a response: Respond, and
\* with no await in between Resume and Tally, up to the next await (the
\* sleep before a retry, the next request, or mark_as_processed).
Await(r, resp) ==
    /\ run[r].pc = "request"
    /\ LET responded == RespondRun(run[r], resp)
           resumed == IF responded.pc = "resume" THEN ResumeRun(responded)
                      ELSE responded
           tallied == IF resumed.pc = "tally" THEN TallyRun(resumed)
                      ELSE resumed
       IN  /\ run' = [run EXCEPT ![r] = tallied]
           /\ forwarded' = IF resumed.pc = "tally"
                           THEN TallyForward(forwarded, resumed) ELSE forwarded
    /\ UNCHANGED <<aggIn, aggOut, aggPc, mode, list_id, now, db, ack,
                 webhook_secret, markCall,
                 conn, health>>

\* scheduler.py:62-75  mark every fetched id (the UPDATE waits for the
\* write lock), build and return the summary.
MarkProcessed(r) ==
    /\ run[r].pc = "mark"
    /\ StoreUnlocked
    /\ db' = mark_as_processed(db, AllIds(run[r]))
    /\ LET rn == run[r]
       IN  run' = [run EXCEPT ![r] = [rn EXCEPT !.pc = "done", !.marked = TRUE,
                !.result = <<SyncResult(rn.target, Len(rn.intentions),
                                        Len(rn.contacts), rn.success_count,
                                        rn.failed_count)>>]]
    /\ UNCHANGED <<aggIn, aggOut, aggPc, mode, list_id, now, ack,
                 webhook_secret, forwarded, markCall,
                 conn, health>>

\* No row has been forwarded more than MaxCrash times: the bound on how
\* often a run is cut short and started over.
MayCrash == \A i \in 1..Len(forwarded) : forwarded[i] <= MaxCrash

\* A cancellation handler that marks the snapshot on its way out.
InterruptMarking(r) ==
    /\ run[r].pc \in {"fetched", "request", "resume", "tally", "mark"}
    /\ MayCrash
    /\ run' = [run EXCEPT ![r] = [@ EXCEPT !.pc = "raised",
                                           !.error = "CancelledError"]]
    /\ db' = mark_as_processed(db, AllIds(run[r]))
    /\ UNCHANGED <<aggIn, aggOut, aggPc, mode, list_id, now, ack,
                 webhook_secret, forwarded, markCall,
                 conn, health>>

\* The run is interrupted (the task is cancelled or the process stops) at
\* one of its awaits, scheduler.py:35-65: run_daily_sync has no try/finally
\* and process_contact catches Exception only, so nothing more of the run
\* happens.  In get_unprocessed_intentions and in the loop the table is not
\* written (a cancellation before the SELECT has read ends like one after
\* it: CancelledError, nothing written, nothing sent).  After the loop there
\* is no await before mark_as_processed is called (scheduler.py:60-65), so
\* at pc = "mark" the run is inside it (database.py:143-149): the
\* cancellation comes before the commit was handed to the connection, and
\* the UPDATE is rolled back, or after it (at the await of the commit or of
\* the close), and the rows are marked while CancelledError leaves the run.
Interrupt(r) ==
    /\ run[r].pc \in {"fetched", "request", "resume", "tally", "mark"}
    /\ MayCrash
    /\ \/ /\ run[r].pc # "mark"
          /\ run' = [run EXCEPT ![r] = [@ EXCEPT !.pc = "raised",
                                                  !.error = "CancelledError"]]
          /\ UNCHANGED db
       \/ /\ run[r].pc = "mark"
          /\ run' = [run EXCEPT ![r] = [@ EXCEPT !.pc = "raised",
                                                  !.marked = TRUE,
                                                  !.error = "CancelledError"]]
          /\ UNCHANGED db
       \/ /\ run[r].pc = "mark" /\ StoreUnlocked
          /\ run' = [run EXCEPT ![r] = [@ EXCEPT !.pc = "raised",
                                                  !.marked = TRUE,
                                                  !.error = "CancelledError"]]
          /\ db' = mark_as_processed(db, AllIds(run[r]))
    /\ UNCHANGED <<aggIn, aggOut, aggPc, mode, list_id, now, ack,
                 webhook_secret, forwarded, markCall,
                 conn, health>>

\* The snapshot read fails (scheduler.py:35): aiosqlite raises, nothing
\* catches it, run_daily_sync ends with the exception.
FetchFault(r, target_date) ==
    /\ run[r].pc \in {"idle", "done", "raised"}
    /\ run' = [run EXCEPT ![r] =
            [IdleRun EXCEPT !.pc = "raised", !.target = target_date,
                            !.metered = run[r].metered,
                            !.before = ProcessedFlags(db),
                            !.error = "OperationalError"]]
    /\ UNCHANGED <<aggIn, aggOut, aggPc, mode, list_id, now, db, ack,
                 webhook_secret, forwarded, markCall,
                 conn, health>>

\* An update that commits row by row and fails after the first.
MarkFaultPartial(r) ==
    /\ run[r].pc = "mark"
    /\ MayCrash
    /\ run' = [run EXCEPT ![r] = [@ EXCEPT !.pc = "raised", !.marked = TRUE,
                                           !.error = "OperationalError"]]
    /\ db' = mark_as_processed(db, SubSeq(AllIds(run[r]), 1, 1))
    /\ UNCHANGED <<aggIn, aggOut, aggPc, mode, list_id, now, ack,
                 webhook_secret, forwarded, markCall,
                 conn, health>>

\* The mark-processed write fails (scheduler.py:65): the connection, the
\* one UPDATE or the commit raises (database.py:143-149), no row is
\* changed, and the exception leaves run_daily_sync.
MarkFault(r) ==
    /\ run[r].pc = "mark"
    /\ MayCrash
    /\ run' = [run EXCEPT ![r] = [@ EXCEPT !.pc = "raised", !.marked = TRUE,
                                           !.error = "OperationalError"]]
    /\ UNCHANGED <<aggIn, aggOut, aggPc, mode, list_id, now, db, ack,
                 webhook_secret, forwarded, markCall,
                 conn, health>>

\* A second passes.
Tick ==
    /\ now + 1 \in Times
    /\ now' = now + 1
    /\ UNCHANGED <<aggIn, aggOut, aggPc, mode, list_id, db, run, ack,
                 webhook_secret, forwarded, markCall,
                 conn, health>>

\* The clock reaches the next calendar day.
Midnight ==
    /\ (Date(now) + 1) * TicksPerDay \in Times
    /\ now' = (Date(now) + 1) * TicksPerDay
    /\ UNCHANGED <<aggIn, aggOut, aggPc, mode, list_id, db, run, ack,
                 webhook_secret, forwarded, markCall,
                 conn, health>>

\* date.today() is the date of the clock in the time zone of the process,
\* while created_at is stamped by SQLite in UTC (datetime('now')): the
\* local date is the UTC date, the day before it (zones west of UTC, until
\* their midnight) or the day after it (zones east of UTC, from their
\* midnight on).
DateSkews == {-1, 0, 1}
LocalDates == {Date(now) + k : k \in DateSkews}

\* target_date=None resolves to date.today() - timedelta(days=1)
\* (scheduler.py:29-30), which is the only date the cron job and the admin
\* trigger ever ask for.
Yesterday(today) == today - 1

\* The dates the runs are called for: the default in every time zone,
\* which is the UTC date of the clock, the day before or two days before.
TargetDates == {Yesterday(today) : today \in LocalDates}

(***************************************************************************)
(* Spec: one sync run at a time over a buffer that earlier webhook calls   *)
(* and earlier runs have left.                                             *)
(***************************************************************************)
BufferedPayloads == {p \in WebhookPayloads : TruthyStr(p.email)}

\* ORDER BY created_at ASC has been applied (ids grow with the clock too).
IsCreatedAscending(rows) ==
    \A i \in 1..(Len(rows) - 1) : rows[i].created_at <= rows[i + 1].created_at

\* The rows the webhook has written before the run, before their ids are
\* given: each as save_intention leaves it (processed = 0), created at the
\* first tick of the UTC date of the run or of the day before.
BufferDays == {MaxDay - 1, MaxDay}
BufferRows ==
    {[IntentionOf(p) EXCEPT !.created_at = d * TicksPerDay] :
        p \in BufferedPayloads, d \in BufferDays}

\* settings: the mode and the list id are read once, at start.
InitConfig ==
    /\ mode \in {"simple", "extended"}
    /\ list_id \in {"", "L1"}

Init ==
    /\ InitConfig
    /\ aggIn = <<>> /\ aggOut = <<>> /\ aggPc = "off"
    /\ \E n \in 0..MaxBuf : \E f \in [1..n -> BufferRows] :
            /\ IsCreatedAscending(f)
            /\ db = [i \in 1..n |-> [f[i] EXCEPT !.id = i]]
    /\ now = TicksPerDay * (MaxDay + 1) - 1
    /\ run = [r \in Runs |-> IdleRun]
    /\ ack = NoAck
    /\ conn = NoConn /\ health = NoHealth
    /\ webhook_secret = ""
    /\ forwarded = [i \in 1..Len(db) |-> 0]
    /\ markCall = NoMarkCall

Next ==
    \/ \E td \in TargetDates : StartRun("scheduled", td)
    \/ EnterLoop("scheduled")
    \/ \E resp \in Responses : Respond("scheduled", resp)
    \/ Resume("scheduled")
    \/ Tally("scheduled")
    \/ MarkProcessed("scheduled")

Spec == Init /\ [][Next]_vars

(***************************************************************************)
(* SpecCrash: Spec with runs that are interrupted and a store that fails.  *)
(* A run is followed from await to await; the downstream answers a request *)
(* with a profile or with a body that cannot be parsed (the retry loop is  *)
(* explored in Spec).                                                      *)
(***************************************************************************)
CrashResponses == {"ok_id", "bad_json"}

NextCrash ==
    \/ \E td \in TargetDates : StartRun("scheduled", td)
    \/ EnterLoop("scheduled")
    \/ \E resp \in CrashResponses : Await("scheduled", resp)
    \/ MarkProcessed("scheduled")
    \/ Interrupt("scheduled")
    \/ \E td \in TargetDates : FetchFault("scheduled", td)
    \/ MarkFault("scheduled")

\* The starts of Spec in simple mode: a contact takes one request, or two
\* when a list id is configured.
InitCrash == Init /\ mode = "simple"

SpecCrash == InitCrash /\ [][NextCrash]_vars

(***************************************************************************)
(* SpecWork: Spec in the configuration where process_contact makes all     *)
(* three calls (extended mode, a list id), with a meter on the client that *)
(* counts the HTTP attempts, and with the scheduling of the event loop:    *)
(* every attempt is answered or times out (httpx timeout = 30 s) and every *)
(* sleep ends, so a run that can take a step takes one.                    *)
(***************************************************************************)
\* A success, the rate limit with and without a hint, a 5xx, and a
\* connection error or timeout.
WorkResponses == {"ok_id", "r429", "r429_hint", "e5xx", "conn"}

\* The rows the webhook has written on the last day before the run.
WorkRows == {r \in BufferRows : Date(r.created_at) = MaxDay}

InitWork ==
    /\ mode = "extended" /\ list_id = "L1"
    /\ aggIn = <<>> /\ aggOut = <<>> /\ aggPc = "off"
    /\ \E n \in 0..MaxBuf : \E f \in [1..n -> WorkRows] :
            /\ IsCreatedAscending(f)
            /\ db = [i \in 1..n |-> [f[i] EXCEPT !.id = i]]
    /\ now = TicksPerDay * (MaxDay + 1) - 1
    /\ run = [r \in Runs |-> [IdleRun EXCEPT !.metered = TRUE]]
    /\ ack = NoAck
    /\ conn = NoConn /\ health = NoHealth
    /\ webhook_secret = ""
    /\ forwarded = [i \in 1..Len(db) |-> 0]
    /\ markCall = NoMarkCall

NextWork ==
    \/ \E td \in TargetDates : StartRun("scheduled", td)
    \/ EnterLoop("scheduled")
    \/ \E resp \in WorkResponses : Respond("scheduled", resp)
    \/ Resume("scheduled")
    \/ Tally("scheduled")
    \/ MarkProcessed("scheduled")

SpecWork == InitWork /\ [][NextWork]_vars /\ WF_vars(NextWork)

(***************************************************************************)
(* SpecSys: the service from an empty table, in the default configuration  *)
(* (config.py: mode = simple, no list id, no webhook secret), where        *)
(* process_contact sends one request per contact.  The retry loop is       *)
(* explored in Spec; here the downstream answers a request with a profile  *)
(* or with a body that cannot be parsed, which fails the contact at once.  *)
(* The service is followed over the last two days of the clock.  The cron  *)
(* job and the admin trigger both call run_daily_sync() without a date, at *)
(* a local hour that the settings and the caller choose: each start takes  *)
(* the default of some time zone (TargetDates), the UTC date of the clock  *)
(* itself included, for which rows still come in during the run and after. *)
(***************************************************************************)
SysResponses == {"ok_id", "bad_json"}

\* The notifications of SpecSys: one intention of each of two identities.
SysPayloads == {p \in WebhookPayloads : p.event_type = EVENT_INTENTION}

InitSys ==
    /\ mode = "simple" /\ list_id = ""
    /\ aggIn = <<>> /\ aggOut = <<>> /\ aggPc = "off"
    /\ db = <<>>
    /\ now = (MaxDay - 1) * TicksPerDay
    /\ run = [r \in Runs |-> IdleRun]
    /\ ack = NoAck
    /\ conn = NoConn /\ health = NoHealth
    /\ webhook_secret = ""
    /\ forwarded = <<>>
    /\ markCall = NoMarkCall

NextSys ==
    \/ \E p \in SysPayloads : Webhook(p, NoSignature)
    \/ WebhookCommit
    \/ WebhookReturn
    \/ Midnight
    \/ \E r \in Runs, td \in TargetDates : StartRun(r, td)
    \/ \E r \in Runs : EnterLoop(r)
    \/ \E r \in Runs, resp \in SysResponses : Await(r, resp)
    \/ \E r \in Runs : MarkProcessed(r)

SpecSys == InitSys /\ [][NextSys]_vars

(***************************************************************************)
(* SpecAgg: aggregate_intentions applied to every list of at most MaxLen   *)
(* rows in the order get_unprocessed_intentions returns them.              *)
(***************************************************************************)
\* The customer and appointment blocks of the rows of SpecAgg: nothing
\* filled in; names and an appointment; an empty first name, another last
\* name, a phone and a source tag.
AggVariants ==
    {[profile |-> NoProfile, detail |-> NoDetail],
     [profile |-> [NoProfile EXCEPT !.first_name = "Ann", !.last_name = "Lee"],
      detail |-> CutDetail],
     [profile |-> [NoProfile EXCEPT !.first_name = "", !.last_name = "Roe",
                                    !.phone = "06", !.campaign_source = "fb"],
      detail |-> NoDetail]}

AggEmails == {EmailA, EmailASpace, EmailB}
AggStamps == {1, 2}

\* The rows a list of SpecAgg is made of, before their ids are given.
AggRows ==
    {BufferedIntention(0, e, k, v.profile, v.detail, t, FALSE) :
        e \in AggEmails, k \in IntentionType, v \in AggVariants, t \in AggStamps}

InitAgg ==
    /\ \E n \in 0..MaxLen : \E f \in [1..n -> AggRows] :
            /\ IsCreatedAscending(f)
            /\ aggIn = [i \in 1..n |-> [f[i] EXCEPT !.id = i]]
    /\ aggOut = <<>> /\ aggPc = "input"
    /\ mode = "simple" /\ list_id = ""
    /\ db = <<>> /\ now = 0
    /\ run = [r \in Runs |-> IdleRun]
    /\ ack = NoAck
    /\ conn = NoConn /\ health = NoHealth
    /\ webhook_secret = "" /\ forwarded = <<>> /\ markCall = NoMarkCall

\* The call contacts = aggregate_intentions(intentions).
Aggregate ==
    /\ aggPc = "input"
    /\ aggOut' = aggregate_intentions(aggIn)
    /\ aggPc' = "done"
    /\ UNCHANGED <<aggIn, mode, list_id, now, db, run, ack,
                 webhook_secret, forwarded, markCall,
                 conn, health>>

NextAgg == Aggregate

SpecAgg == InitAgg /\ [][NextAgg]_vars

(***************************************************************************)
(* SpecDb: mark_as_processed called twice with the same list of ids on a   *)
(* table of at most MaxBuf rows, some of them processed by earlier runs.   *)
(***************************************************************************)
\* The rows of a table some runs have been over.
TableRows ==
    {[r EXCEPT !.processed = f] : r \in BufferRows, f \in BOOLEAN}

\* The lists of ids a caller can pass: ids of rows and one id of no row,
\* in any order, repeated or not.
IdLists == UNION {[1..k -> 1..(MaxBuf + 1)] : k \in 0..MaxBuf}

InitDb ==
    /\ aggIn = <<>> /\ aggOut = <<>> /\ aggPc = "off"
    /\ mode = "simple" /\ list_id = "" /\ webhook_secret = ""
    /\ \E n \in 0..MaxBuf : \E f \in [1..n -> TableRows] :
            /\ IsCreatedAscending(f)
            /\ db = [i \in 1..n |-> [f[i] EXCEPT !.id = i]]
    /\ now = TicksPerDay * (MaxDay + 1) - 1
    /\ run = [r \in Runs |-> IdleRun]
    /\ ack = NoAck
    /\ conn = NoConn /\ health = NoHealth
    /\ forwarded = [i \in 1..Len(db) |-> 0]
    /\ \E ids \in IdLists :
            markCall = [pc |-> "input", ids |-> ids, before |-> db, once |-> <<>>]

\* await mark_as_processed(ids)
MarkOnce ==
    /\ markCall.pc = "input"
    /\ db' = mark_as_processed(db, markCall.ids)
    /\ markCall' = [markCall EXCEPT !.pc = "once", !.once = db']
    /\ UNCHANGED <<aggIn, aggOut, aggPc, mode, list_id, now, run, ack,
                 webhook_secret, forwarded,
                 conn, health>>

\* await mark_as_processed(ids), again
MarkTwice ==
    /\ markCall.pc = "once"
    /\ db' = mark_as_processed(db, markCall.ids)
    /\ markCall' = [markCall EXCEPT !.pc = "twice"]
    /\ UNCHANGED <<aggIn, aggOut, aggPc, mode, list_id, now, run, ack,
                 webhook_secret, forwarded,
                 conn, health>>

NextDb == MarkOnce \/ MarkTwice

SpecDb == InitDb /\ [][NextDb]_vars

(***************************************************************************)
(* SpecConn: two calls of the buffer store (save_intention or              *)
(* mark_as_processed, in any combination) made at the same time on a table *)
(* of at most MaxBuf rows; their statements and commits interleave.        *)
(***************************************************************************)
\* The rows of the table of SpecConn: one identity, any day, any flag.
ConnRows == {r \in TableRows : r.email = EmailA}

\* The lists of ids a caller of mark_as_processed passes: at most two ids
\* of rows it has fetched from a table of n rows.
FetchedIdLists(n) ==
    {<<>>} \cup {<<i>> : i \in 1..n} \cup {<<i, j>> : i, j \in 1..n}

\* The calls that can be made on a table of n rows.
ConnCalls(rows) ==
    {[ClosedConn EXCEPT !.pc = "called", !.op = "save",
                        !.intention = <<IntentionOf(p)>>, !.start = rows] :
        p \in SysPayloads}
    \cup
    {[ClosedConn EXCEPT !.pc = "called", !.op = "mark", !.ids = ids,
                        !.start = rows] :
        ids \in FetchedIdLists(Len(rows))}

InitConn ==
    /\ aggIn = <<>> /\ aggOut = <<>> /\ aggPc = "off"
    /\ mode = "simple" /\ list_id = "" /\ webhook_secret = ""
    /\ \E n \in 0..MaxBuf : \E f \in [1..n -> ConnRows] :
            /\ IsCreatedAscending(f)
            /\ db = [i \in 1..n |-> [f[i] EXCEPT !.id = i]]
    /\ now = TicksPerDay * (MaxDay + 1) - 1
    /\ run = [r \in Runs |-> IdleRun]
    /\ ack = NoAck
    /\ forwarded = [i \in 1..Len(db) |-> 0]
    /\ markCall = NoMarkCall
    /\ conn \in [Conns -> ConnCalls(db)]
    /\ health = NoHealth

NextConn ==
    \/ \E c \in Conns : MarkNothing(c)
    \/ \E c \in Conns : Execute(c)
    \/ \E c \in Conns : Commit(c)

SpecConn == InitConn /\ [][NextConn]_vars

(***************************************************************************)
(* SpecHealth: one GET /health on a table of at most MaxBuf rows, against  *)
(* a downstream that answers every attempt of the probe as it likes,       *)
(* while notifications come in.                                            *)
(***************************************************************************)
InitHealth ==
    /\ InitConfig
    /\ aggIn = <<>> /\ aggOut = <<>> /\ aggPc = "off"
    /\ webhook_secret = ""
    /\ \E n \in 0..MaxBuf : \E f \in [1..n -> ConnRows] :
            /\ IsCreatedAscending(f)
            /\ db = [i \in 1..n |-> [f[i] EXCEPT !.id = i]]
    /\ now = TicksPerDay * (MaxDay + 1) - 1
    /\ run = [r \in Runs |-> IdleRun]
    /\ ack = NoAck
    /\ conn = NoConn /\ health = NoHealth
    /\ forwarded = [i \in 1..Len(db) |-> 0]
    /\ markCall = NoMarkCall

NextHealth ==
    \/ HealthCall
    \/ \E resp \in Responses : HealthRespond(resp)
    \/ HealthCountUnprocessed
    \/ HealthCount
    \/ \E p \in SysPayloads : Webhook(p, NoSignature)
    \/ WebhookCommit
    \/ WebhookReturn

SpecHealth == InitHealth /\ [][NextHealth]_vars

(***************************************************************************)
(* SpecHook: the webhook endpoint alone, with and without a configured     *)
(* secret, called with every body and every X-Webhook-Signature header.    *)
(***************************************************************************)
InitHook ==
    /\ mode = "simple" /\ list_id = ""
    /\ aggIn = <<>> /\ aggOut = <<>> /\ aggPc = "off"
    /\ db = <<>>
    /\ now = 0
    /\ run = [r \in Runs |-> IdleRun]
    /\ ack = NoAck
    /\ conn = NoConn /\ health = NoHealth
    /\ webhook_secret \in Secrets
    /\ forwarded = <<>>
    /\ markCall = NoMarkCall

NextHook ==
    \/ \E p \in Bodies, sig \in Signatures : Webhook(p, sig)
    \/ WebhookCommit
    \/ WebhookReturn
    \/ WebhookCancel
    \/ Tick

SpecHook == InitHook /\ [][NextHook]_vars

(***************************************************************************)
(* Properties of aggregate_intentions (SpecAgg).                           *)
(***************************************************************************)
\* The normalized identity key of a row, as the specification words it:
\* the email lowercased and trimmed.
NormalizedEmail(row) == Strip(Lower(row.email))

NormalizedEmails(rows) == {NormalizedEmail(rows[i]) : i \in 1..Len(rows)}

\* The rows of the input that contribute to a contact.
Contributing(rows, contact) ==
    {i \in 1..Len(rows) : NormalizedEmail(rows[i]) = contact.email}

Last(S) == CHOOSE i \in S : \A j \in S : j <= i

\* C6  Grouping: aggregate_intentions returns exactly one contact per
\* distinct lowercased and trimmed email of its input: as many contacts as
\* distinct keys, each key the email of one contact, nothing for an empty
\* input.
GroupingCorrect ==
    aggPc = "done" =>
        /\ Len(aggOut) = Cardinality(NormalizedEmails(aggIn))
        /\ {aggOut[k].email : k \in 1..Len(aggOut)} = NormalizedEmails(aggIn)
        /\ aggIn = <<>> => aggOut = <<>>

\* C6 witness: "A@x", "a@x " and "b@x" came in and two contacts went out,
\* the first under the key "a@x".
GroupingWitness ==
    /\ aggPc = "done"
    /\ Len(aggIn) = 3
    /\ aggIn[1].email = EmailA /\ aggIn[2].email = EmailASpace
    /\ aggIn[3].email = EmailB
    /\ Len(aggOut) = 2
    /\ aggOut[1].email = <<"a", "@", "x">>
    /\ aggOut[2].email = EmailB

\* C7  Classification: a contact's event_name is "appointmentMade" exactly
\* when one of its contributing rows is an appointment, and
\* "appointmentIntention" otherwise.
ClassificationCorrect ==
    aggPc = "done" =>
        \A k \in 1..Len(aggOut) :
            LET made == \E i \in Contributing(aggIn, aggOut[k]) :
                            aggIn[i].intention_type = APPOINTMENT
            IN  aggOut[k].event_name =
                    IF made THEN "appointmentMade" ELSE "appointmentIntention"

\* C7 witness: one contact of two intentions and one appointment is
\* "made", another of intentions only is not.
ClassificationWitness ==
    /\ aggPc = "done"
    /\ Len(aggOut) = 2
    /\ aggOut[1].event_name = "appointmentMade"
    /\ aggOut[1].intention_count = 1 /\ aggOut[1].appointment_count = 1
    /\ aggOut[2].event_name = "appointmentIntention"

\* The row the business-context fields are to come from: the latest
\* appointment of the group if it has one, else its latest row; latest is
\* the greatest created_at, the last in input order among equals.
LatestOf(rows, S) ==
    CHOOSE i \in S :
        /\ \A j \in S : rows[j].created_at <= rows[i].created_at
        /\ \A j \in S : rows[j].created_at = rows[i].created_at => j <= i

ContextSource(rows, contact) ==
    LET group == Contributing(rows, contact)
        appts == {i \in group : rows[i].intention_type = APPOINTMENT}
    IN  IF appts # {} THEN LatestOf(rows, appts) ELSE LatestOf(rows, group)

\* C8  Business context: salon, stylist, treatment, price and appointment
\* date of every contact are those of the latest appointment of its group,
\* or of its latest row when it has no appointment, the last in input
\* order winning among rows of equal created_at.
ContextFromLatest ==
    aggPc = "done" =>
        \A k \in 1..Len(aggOut) : \A fld \in DetailFields :
            aggOut[k][fld] = aggIn[ContextSource(aggIn, aggOut[k])][fld]

\* C9  Field resolution: each of first_name, last_name, phone and
\* campaign_source of a contact is, on its own, the value of the last
\* contributing row that has a non-empty value for it, and None when no
\* contributing row has one.
FieldResolution ==
    aggPc = "done" =>
        \A k \in 1..Len(aggOut) : \A fld \in ProfileFields :
            LET having == {i \in Contributing(aggIn, aggOut[k]) :
                                aggIn[i][fld] # None /\ aggIn[i][fld] # ""}
            IN  aggOut[k][fld] =
                    IF having = {} THEN None ELSE aggIn[Last(having)][fld]

\* C9 witness: the older row has a phone, a source tag and an empty name,
\* the newer a name and no phone; the contact has the phone and the source
\* of the one and the names of the other.
FieldResolutionWitness ==
    /\ aggPc = "done"
    /\ Len(aggIn) = 2 /\ Len(aggOut) = 1
    /\ aggIn[1].phone = "06" /\ aggIn[1].first_name = ""
    /\ aggIn[2].phone = None /\ aggIn[2].first_name = "Ann"
    /\ aggIn[1].created_at < aggIn[2].created_at
    /\ aggOut[1].phone = "06" /\ aggOut[1].first_name = "Ann"
    /\ aggOut[1].campaign_source = "fb" /\ aggOut[1].last_name = "Lee"

RECURSIVE SumCounts(_)
SumCounts(contacts) ==
    IF contacts = <<>> THEN 0
    ELSE Head(contacts).intention_count + Head(contacts).appointment_count
            + SumCounts(Tail(contacts))

\* C10  Counts: intention_count and appointment_count of a contact are the
\* numbers of its contributing rows of each kind, and over all contacts
\* they add up to the number of input rows.
CountsExact ==
    aggPc = "done" =>
        /\ \A k \in 1..Len(aggOut) :
            /\ aggOut[k].intention_count = Cardinality(
                    {i \in Contributing(aggIn, aggOut[k]) :
                        aggIn[i].intention_type = INTENTION})
            /\ aggOut[k].appointment_count = Cardinality(
                    {i \in Contributing(aggIn, aggOut[k]) :
                        aggIn[i].intention_type = APPOINTMENT})
        /\ SumCounts(aggOut) = Len(aggIn)

\* C10 witness: three rows of one identity, two intentions and one
\* appointment.
CountsWitness ==
    /\ aggPc = "done"
    /\ Len(aggIn) = 3 /\ Len(aggOut) = 1
    /\ aggOut[1].intention_count = 2 /\ aggOut[1].appointment_count = 1

(***************************************************************************)
(* Properties of one sync run and of the client's retry loop (Spec).       *)
(***************************************************************************)
\* C1  Drain: once run_daily_sync(target) has returned,
\* get_unprocessed_intentions(target) is empty, whatever the downstream
\* answered.
DrainGuarantee ==
    \A r \in Runs :
        run[r].pc = "done" =>
            get_unprocessed_intentions(db, run[r].target) = <<>>

\* C1 witness: a run over two rows of two identities returned with both
\* forwards failed, and both rows are processed.
DrainWitness ==
    /\ run["scheduled"].pc = "done"
    /\ run["scheduled"].result # <<>>
    /\ run["scheduled"].result[1].intentions_found = 2
    /\ run["scheduled"].result[1].failed = 2
    /\ run["scheduled"].result[1].success = 0
    /\ \A i \in 1..Len(db) : db[i].processed

\* C2  Retry bound on rate limiting: a _request that got a 429 on every
\* attempt has made exactly MAX_RETRIES attempts and ends by raising to its
\* caller.
RateLimitReportsFailure ==
    \A r \in Runs :
        (run[r].pc = "resume" /\ run[r].seen # {}
            /\ run[r].seen \subseteq {"r429", "r429_hint"})
        => (run[r].attempt = MAX_RETRIES /\ run[r].outcome.kind = "raise")

\* C3  Retry bound on other failures: a _request whose every attempt
\* failed with a connection error, a 5xx or a 4xx other than 429 has made
\* exactly MAX_RETRIES attempts and ends by raising that failure; no
\* _request goes past MAX_RETRIES attempts.
HardFailureRetryBound ==
    \A r \in Runs :
        /\ (run[r].pc = "resume" /\ run[r].seen # {}
                /\ run[r].seen \subseteq HardFailures)
            => /\ run[r].attempt = MAX_RETRIES
               /\ run[r].outcome.kind = "raise"
               /\ run[r].outcome.value \in {"HTTPStatusError", "RequestError"}
        /\ run[r].pc \in {"request", "resume"} => run[r].attempt \in 1..MAX_RETRIES

\* C3 witness: three 4xx answers in a row, and the third raised.
HardFailureWitness ==
    /\ run["scheduled"].pc = "resume"
    /\ run["scheduled"].seen = {"e4xx"}
    /\ run["scheduled"].attempt = MAX_RETRIES
    /\ run["scheduled"].outcome = [kind |-> "raise", value |-> "HTTPStatusError",
                                   wait |-> 0]

\* The exceptions a downstream answer can raise inside process_contact.
DownstreamErrors ==
    {"HTTPStatusError", "RequestError", "ValueError", "AttributeError"}

\* process_contact returns a boolean and lets no exception of the
\* downstream through, and it returns False whenever a step raised.
ForwardReturnsBoolean ==
    \A r \in Runs :
        /\ run[r].pc = "raised" => run[r].error \notin DownstreamErrors
        /\ run[r].pc = "tally" =>
            /\ run[r].ok \in {"true", "false"}
            /\ run[r].outcome.kind = "raise" => run[r].ok = "false"
            /\ run[r].ok = "false" =>
                    run[r].outcome.kind = "raise" \/ run[r].exhausted

\* When the _request of upsert_profile has used up its attempts on
\* failures, process_contact returns False.
UpsertExhaustedReturnsFalse ==
    [][\A r \in Runs :
        (run[r].pc = "resume" /\ run[r].step = "upsert" /\ run[r].exhausted
            /\ run'[r] # run[r])
        => (run'[r].pc = "tally" /\ run'[r].ok = "false")]_vars

\* C4  process_contact never raises: it returns True or False, False when
\* upsert_profile failed on all its attempts or when any step raised, and
\* True otherwise, also when add_to_list and create_event sent nothing; so
\* no downstream failure leaves run_daily_sync as an exception.
ForwardNeverRaises == []ForwardReturnsBoolean /\ UpsertExhaustedReturnsFalse

\* C5  Persistent failures are tallied: every contact one of whose
\* _request calls used up its attempts on failures is counted in "failed"
\* and not in "success", and the rows of the run are processed all the same.
ExhaustedCountedFailed ==
    \A r \in Runs :
        (run[r].pc = "done" /\ run[r].result # <<>>) =>
            /\ run[r].result[1].failed >= run[r].exhausted_count
            /\ run[r].result[1].success
                    <= run[r].result[1].contacts_processed - run[r].exhausted_count
            /\ \A i \in 1..Len(run[r].intentions) :
                    db[run[r].intentions[i].id].processed

(***************************************************************************)
(* Properties of the buffer store (SpecDb).                                *)
(***************************************************************************)
\* The ids of a list that are ids of rows of the table.
IdsIn(rows, ids) == {ids[k] : k \in 1..Len(ids)} \cap (1..Len(rows))

\* C11  mark_as_processed is idempotent: after a second call with the same
\* ids the table is what the first call left; a call whose ids are all
\* processed already, and a call with no ids, leave the table as it was.
MarkIdempotent ==
    /\ markCall.pc = "twice" => db = markCall.once
    /\ (markCall.pc \in {"once", "twice"} /\ markCall.ids = <<>>)
            => db = markCall.before
    /\ (markCall.pc \in {"once", "twice"}
            /\ \A i \in IdsIn(markCall.before, markCall.ids) :
                    markCall.before[i].processed)
            => db = markCall.before

\* C11 witness: two calls with two ids, one of a row that was processed
\* already and one of a row that the first call flipped.
MarkIdempotentWitness ==
    /\ markCall.pc = "twice"
    /\ Len(markCall.ids) = 2 /\ markCall.ids[1] # markCall.ids[2]
    /\ IdsIn(markCall.before, markCall.ids) = {1, 2}
    /\ markCall.before[1].processed /\ ~markCall.before[2].processed
    /\ db[1].processed /\ db[2].processed

(***************************************************************************)
(* Properties of the running service (SpecSys).                            *)
(***************************************************************************)
\* C12  Rows are immutable but for the flag: no step removes a row, and
\* every step leaves each row as it was or sets its processed flag from
\* false to true with every other field (created_at included) unchanged.
ProcessedMonotonic ==
    [][/\ Len(db') >= Len(db)
       /\ \A i \in 1..Len(db) :
            \/ db'[i] = db[i]
            \/ /\ ~db[i].processed
               /\ db'[i] = [db[i] EXCEPT !.processed = TRUE]]_vars

\* C12 witness: a run has processed the first row, and the same identity
\* has sent a second notification since.
ProcessedMonotonicWitness ==
    /\ Len(db) = 2
    /\ db[1].processed /\ ~db[2].processed
    /\ db[1].email = db[2].email
    /\ db[1].created_at < db[2].created_at

\* C14  No duplicate forwarding: whatever the interleaving of the sync
\* runs, no row has been part of the contacts handed to process_contact in
\* more than one run.
NoDuplicateForwarding ==
    \A i \in 1..Len(forwarded) : forwarded[i] <= 1

\* The ids of the rows a run fetched.
SnapshotIds(rn) == {rn.intentions[k].id : k \in 1..Len(rn.intentions)}

\* A row is in the run's snapshot, and then it has been forwarded and is
\* processed when the run returns, or it is not, and then this run leaves
\* its flag alone: a flag goes from false to true only in the
\* mark_as_processed step of a run whose snapshot holds the row.
SnapshotMarksOnly ==
    /\ [](\A r \in Runs : (run[r].pc = "done" /\ run[r].marked) =>
            \A i \in SnapshotIds(run[r]) :
                db[i].processed /\ forwarded[i] >= 1)
    /\ [][\A i \in 1..Len(db) :
            (~db[i].processed /\ db'[i].processed) =>
                \E r \in Runs :
                    /\ run[r].pc = "mark" /\ run'[r].pc = "done"
                    /\ i \in SnapshotIds(run[r])]_vars

\* The run has fetched and has not returned.
InProgress(rn) ==
    rn.pc \in {"fetched", "request", "resume", "tally", "mark"}

\* A row that becomes visible while a run is in progress is of a date
\* after the run's target: the dates that the default of the following
\* days asks for (the default moves on by a day with every local day and
\* never comes back to the target of an earlier day).
DeferredToLaterRun ==
    [][\A r \in Runs :
        (InProgress(run[r]) /\ Len(db') > Len(db)) =>
            \A i \in (Len(db) + 1)..Len(db') :
                Date(db'[i].created_at) > run[r].target]_vars

\* C15  Ingestion during a run: a row inserted while a run is in progress
\* is in the run's snapshot, and is then forwarded and marked by it, or is
\* left unprocessed for a later run to pick up; no run marks a row that
\* its snapshot does not hold.
SnapshotOrDeferred == SnapshotMarksOnly /\ DeferredToLaterRun

(***************************************************************************)
(* More properties of one sync run (Spec).                                 *)
(***************************************************************************)
\* The table held no unprocessed row of the run's date when the run fetched.
EmptyAtStart(r) ==
    \A i \in 1..Len(run[r].before) :
        run[r].before[i] \/ Date(db[i].created_at) # run[r].target

\* C13  Empty day: a run that found no unprocessed row of its date
\* returns straight from its fetch (it is never in the loop or at
\* mark_as_processed), its counts are all zero, it has sent no downstream
\* request, has not called mark_as_processed, and the table is as it was.
EmptyDayNoWork ==
    \A r \in Runs :
        (run[r].pc # "idle" /\ EmptyAtStart(r)) =>
            /\ run[r].pc \in {"fetched", "done"}
            /\ run[r].pc = "done" =>
                    run[r].result = <<SyncResult(run[r].target, 0, 0, 0, 0)>>
            /\ run[r].intentions = <<>> /\ run[r].contacts = <<>>
            /\ ~run[r].called /\ ~run[r].marked
            /\ ProcessedFlags(db) = run[r].before

\* C13 witness: a run for a day without rows has returned zeros while two
\* unprocessed rows of another day are in the table.
EmptyDayWitness ==
    /\ run["scheduled"].pc = "done"
    /\ Len(db) = 2
    /\ \A i \in 1..2 : ~db[i].processed /\ Date(db[i].created_at) # run["scheduled"].target
    /\ run["scheduled"].result = <<SyncResult(run["scheduled"].target, 0, 0, 0, 0)>>
    /\ ~run["scheduled"].called

(***************************************************************************)
(* Properties of runs that are cut short (SpecCrash).                      *)
(***************************************************************************)
\* The run was interrupted: a CancelledError left run_daily_sync.
Interrupted(rn) == rn.pc = "raised" /\ rn.error = "CancelledError"

\* The run ended on an exception of the buffer store.
StorageFaulted(rn) == rn.pc = "raised" /\ rn.error = "OperationalError"

\* The ids of the rows whose contact this run has handed to
\* process_contact so far (contacts 1..idx of the loop).
ForwardedIn(rn) ==
    UNION {GroupIds(rn.intentions, rn.contacts[k]) : k \in 1..rn.idx}

\* Every row of the run's snapshot is unprocessed and a fetch for the
\* run's date returns the snapshot again.
SnapshotUntouched(rn) ==
    /\ \A i \in SnapshotIds(rn) : ~db[i].processed
    /\ get_unprocessed_intentions(db, rn.target) = rn.intentions

\* C16 as stated: after a run was interrupted before mark_as_processed
\* completed (returned), every row of its snapshot is unprocessed and a
\* fetch for the same date returns the same rows.
InterruptedLeavesUnprocessed ==
    \A r \in Runs : Interrupted(run[r]) => SnapshotUntouched(run[r])

\* C16  Interruption: a run interrupted before the commit of
\* mark_as_processed leaves every row of its snapshot unprocessed, a fetch
\* for the same date returns the same rows, and the next run for that date
\* fetches exactly that snapshot and goes on from its fetch with the first
\* contact handed to process_contact; a run interrupted later has handed every row of its
\* snapshot to process_contact and all of them are processed (never a part
\* of them); and a run that reaches its return has handed every row of its
\* snapshot to process_contact.
InterruptedRunIsRetried ==
    /\ [](\A r \in Runs :
            /\ Interrupted(run[r]) =>
                \/ SnapshotUntouched(run[r])
                \/ /\ run[r].idx = Len(run[r].contacts)
                   /\ ForwardedIn(run[r]) = SnapshotIds(run[r])
                   /\ \A i \in SnapshotIds(run[r]) : db[i].processed
            /\ (run[r].pc = "done" /\ run[r].marked) =>
                /\ run[r].idx = Len(run[r].contacts)
                /\ ForwardedIn(run[r]) = SnapshotIds(run[r]))
    /\ [][\A r \in Runs :
            /\ (Interrupted(run'[r]) /\ run'[r] # run[r]
                    /\ run[r].pc # "mark") => db' = db
            /\ (/\ Interrupted(run[r])
                /\ SnapshotUntouched(run[r])
                /\ run'[r] # run[r]
                /\ run'[r].target = run[r].target
                /\ ~StorageFaulted(run'[r])) =>
                   /\ run'[r].intentions = run[r].intentions
                   /\ run'[r].pc = "fetched"
            /\ (/\ run[r].pc = "fetched" /\ run[r].intentions # <<>>
                /\ run'[r] # run[r]
                /\ ~Interrupted(run'[r])) =>
                   /\ run'[r].intentions = run[r].intentions
                   /\ run'[r].pc = "request" /\ run'[r].idx = 1
                   /\ forwarded' = Forward(forwarded, run'[r].intentions,
                                           run'[r].contacts[1])]_vars

\* C16 witness: the run of two contacts was interrupted while the second
\* was with the downstream, the first having succeeded; both rows are
\* unprocessed.
InterruptedRunWitness ==
    /\ Interrupted(run["scheduled"])
    /\ Len(run["scheduled"].contacts) = 2
    /\ run["scheduled"].idx = 2
    /\ run["scheduled"].success_count = 1
    /\ SnapshotIds(run["scheduled"]) = {1, 2}
    /\ ~db[1].processed /\ ~db[2].processed
    /\ forwarded = <<1, 1>>

\* C17  Storage fault: when the snapshot read or the mark-processed write
\* raised, the run has ended on that exception without a summary, the
\* processed flags are those of the moment the run fetched, and the step
\* that raised left the table and the forwards alone (no second attempt).
StorageFaultAborts ==
    /\ [](\A r \in Runs :
            StorageFaulted(run[r]) =>
                /\ run[r].result = <<>>
                /\ ProcessedFlags(db) = run[r].before)
    /\ [][\A r \in Runs :
            (StorageFaulted(run'[r]) /\ run'[r] # run[r]) =>
                /\ db' = db /\ forwarded' = forwarded
                /\ run[r].pc \in {"idle", "done", "raised", "mark"}]_vars

\* C17 witness: mark_as_processed raised after both contacts of the run
\* were forwarded with success; both rows are unprocessed.
StorageFaultWitness ==
    /\ StorageFaulted(run["scheduled"])
    /\ run["scheduled"].marked
    /\ run["scheduled"].success_count = 2
    /\ SnapshotIds(run["scheduled"]) = {1, 2}
    /\ ~db[1].processed /\ ~db[2].processed

(***************************************************************************)
(* Properties of the webhook endpoint (SpecHook).                          *)
(***************************************************************************)
\* The header of the latest call is the HMAC-SHA256 of its body under the
\* configured secret, in the form "sha256=<hex>".
GoodSignature == ack.signature = Sign(webhook_secret, ack.body)

\* C18  A call whose signature header is missing or is not the signature of
\* its body under the shared secret is answered with 401 and not buffered,
\* whatever the configured secret is.
BadSignatureRejected ==
    (ack.status # "none" /\ ~GoodSignature) =>
        ack.status = "rejected" /\ ack.http = 401

\* C19  Ingestion: every call that answers is answered buffered, ignored
\* or rejected, and no step of a call touches the runs (the only callers of
\* the downstream) or the forwards of the stored rows; a call that answers
\* buffered has added exactly one row to the table it found, with a
\* non-empty email and the returned id; a call that answers ignored had no
\* email and one that answers ignored or rejected leaves the table
\* unchanged; no stored row has an empty email.  (A call whose task is
\* cancelled gives no answer and is not counted.)
IngestionAnswers ==
    /\ [](/\ ack.status \in {"none", "pending", "cancelled",
                              "buffered", "ignored", "rejected"}
          /\ \A i \in 1..Len(db) : TruthyStr(db[i].email))
    /\ [][(ack' # ack \/ db' # db) =>
            /\ run' = run
            /\ SubSeq(forwarded', 1, Len(forwarded)) = forwarded
            /\ CASE ack'.status = "buffered" ->
                        /\ ack.status = "pending" /\ db' = db
                        /\ Len(db) = Len(conn[HookConn].start) + 1
                        /\ SubSeq(db, 1, Len(db) - 1) = conn[HookConn].start
                        /\ TruthyStr(db[Len(db)].email)
                        /\ db[Len(db)].email = ack'.body.email
                        /\ ack'.id = db[Len(db)].id
                 [] ack'.status = "ignored" ->
                        db' = db /\ ~TruthyStr(ack'.body.email)
                 [] ack'.status = "rejected" -> db' = db
                 [] ack'.status = "pending" ->
                        \/ db' = db
                        \/ /\ ack' = ack
                           /\ Len(db') = Len(db) + 1
                           /\ SubSeq(db', 1, Len(db)) = db
                 [] ack'.status = "cancelled" ->
                        SubSeq(db', 1, Len(db)) = db
                 [] OTHER -> FALSE]_vars

(***************************************************************************)
(* Properties of process_contact (Spec).                                   *)
(***************************************************************************)
\* C20  Skip rules: a list-membership request is pending only with a list
\* id configured and a profile id from upsert_profile, an event request
\* only in extended mode; and when a call of process_contact has returned
\* without an exception, the steps that are skipped send nothing and
\* process_contact returns True.
SkipRules ==
    /\ [](\A r \in Runs :
            run[r].pc = "request" =>
                /\ run[r].step = "list" =>
                        list_id # "" /\ Truthy(run[r].profile_id)
                /\ run[r].step = "event" => mode = "extended")
    /\ [][\A r \in Runs :
            (/\ run[r].pc = "resume"
             /\ StepOutcome(run[r].step, run[r].outcome).kind = "return"
             /\ run'[r] # run[r]) =>
                LET skipList ==
                        /\ run[r].step = "upsert"
                        /\ \/ list_id = ""
                           \/ ~Truthy(ProfileId(run[r].outcome.value))
                    skipEvent == mode # "extended"
                IN  /\ skipList => ~(run'[r].pc = "request"
                                        /\ run'[r].step = "list")
                    /\ skipEvent => ~(run'[r].pc = "request"
                                        /\ run'[r].step = "event")
                    /\ (skipEvent /\ (skipList \/ run[r].step = "list")) =>
                            run'[r].pc = "tally"
                    /\ run'[r].pc = "tally" => run'[r].ok = "true"]_vars

\* C20 witness: with a list id configured, in simple mode, upsert_profile
\* has returned without a profile id; no list request and no event request
\* were sent and process_contact has returned True.
SkipRulesWitness ==
    /\ list_id = "L1" /\ mode = "simple"
    /\ run["scheduled"].pc = "tally"
    /\ run["scheduled"].step = "upsert"
    /\ run["scheduled"].outcome.kind = "return"
    /\ ~Truthy(run["scheduled"].profile_id)
    /\ run["scheduled"].ok = "true"

(***************************************************************************)
(* Properties of concurrent store calls (SpecConn).                        *)
(***************************************************************************)
\* Every call has returned.
AllDone == \A c \in Conns : conn[c].pc = "done"

\* The connections that ran save_intention / the ids passed to the
\* mark_as_processed calls.
Savers == {c \in Conns : conn[c].op = "save"}
MarkedIds ==
    UNION {{conn[c].ids[k] : k \in 1..Len(conn[c].ids)} :
            c \in {d \in Conns : conn[d].op = "mark"}}

\* C21  Concurrent store calls: the ids of the table are distinct and grow
\* with the position; a save_intention gets an id above every id given
\* before; and when all calls have returned, in whatever order their
\* statements ran, every saved row is in the table under the id its call
\* returned, two calls returned different ids, and a row that was there
\* before is unchanged but for its flag, which is true exactly if it was
\* true before or its id is in the list of one of the mark_as_processed
\* calls.
ConcurrentStoreCalls ==
    /\ [](\A i \in 1..Len(db) : db[i].id = i)
    /\ [](AllDone =>
            LET start == conn["c1"].start
            IN  /\ Len(db) = Len(start) + Cardinality(Savers)
                /\ \A c \in Savers :
                        /\ conn[c].row_id \in (Len(start) + 1)..Len(db)
                        /\ db[conn[c].row_id] =
                            [conn[c].intention[1] EXCEPT
                                !.id = conn[c].row_id,
                                !.created_at = now,
                                !.processed = FALSE]
                /\ \A c, d \in Savers :
                        c # d => conn[c].row_id # conn[d].row_id
                /\ \A i \in 1..Len(start) :
                        db[i] = [start[i] EXCEPT !.processed =
                                    start[i].processed \/ i \in MarkedIds])
    /\ [][\A c \in Conns :
            (conn[c].pc = "called" /\ conn'[c].pc = "written"
                /\ conn[c].op = "save") =>
                /\ \A i \in 1..Len(db) : conn'[c].row_id > db[i].id
                /\ \A d \in Savers \ {c} :
                        conn[d].pc = "done" =>
                            conn'[c].row_id > conn[d].row_id]_vars

\* C21 witness: two save_intention calls made at the same time on a table
\* of one row have both returned, one with id 2 and one with id 3.
ConcurrentStoreWitness ==
    /\ AllDone
    /\ Savers = Conns
    /\ Len(conn["c1"].start) = 1
    /\ {conn[c].row_id : c \in Conns} = {2, 3}
    /\ Len(db) = 3

(***************************************************************************)
(* Properties of the work of one run (SpecWork).                           *)
(***************************************************************************)
\* C25  Bounded work: a call that got a successful response makes no
\* further attempt, no call makes more than MAX_RETRIES attempts, a run has
\* sent at most 3 * MAX_RETRIES requests per contact it has reached, and a
\* run that was started reaches its return, whatever the downstream
\* answers.
BoundedWork ==
    /\ [](\A r \in Runs :
            /\ run[r].pc \in {"request", "resume"} =>
                    run[r].attempt \in 1..MAX_RETRIES
            /\ run[r].requests <= 3 * MAX_RETRIES * run[r].idx
            /\ run[r].idx <= Len(run[r].contacts))
    /\ [][\A r \in Runs : \A resp \in WorkResponses \ Failures :
            (run[r].pc = "request" /\ run'[r] = RespondRun(run[r], resp)) =>
                run'[r].pc = "resume" /\ run'[r].requests = run[r].requests]_vars
    /\ \A r \in Runs :
            (run[r].pc \in {"request", "resume", "tally", "mark"})
                ~> (run[r].pc = "done")

\* C25 witness: a run over one contact has returned after 3 * MAX_RETRIES
\* requests: each of the three calls succeeded on its last attempt.
BoundedWorkWitness ==
    /\ run["scheduled"].pc = "done"
    /\ Len(run["scheduled"].contacts) = 1
    /\ run["scheduled"].requests = 3 * MAX_RETRIES
    /\ run["scheduled"].success_count = 1

(***************************************************************************)
(* More properties of the running service (SpecSys).                       *)
(***************************************************************************)
\* A run sets flags only in the one step after its loop, when
\* process_contact has been called and has returned for every contact of
\* the run; that step sets the flag of every row of the snapshot, whatever
\* the contacts returned, and every row it sets was part of a contact this
\* run handed to process_contact.
MarksAfterOwnLoop ==
    [][\A r \in Runs :
        (run'[r] # run[r] /\ db' # db) =>
            /\ run[r].pc = "mark" /\ run'[r].pc = "done"
            /\ run[r].idx = Len(run[r].contacts)
            /\ run[r].success_count + run[r].failed_count
                    = Len(run[r].contacts)
            /\ \A i \in SnapshotIds(run[r]) : db'[i].processed
            /\ \A i \in 1..Len(db) :
                    db'[i] # db[i] => i \in ForwardedIn(run[r])]_vars

\* While process_contact has not been called for every contact of a run
\* (the run has fetched and has not entered its loop, or is in the loop
\* before its last contact), no row of the run's snapshot is processed.
SnapshotUnmarkedInLoop ==
    \A r \in Runs :
        (\/ run[r].pc = "fetched"
         \/ /\ run[r].pc \in {"request", "resume", "tally"}
            /\ run[r].idx < Len(run[r].contacts))
        => \A i \in SnapshotIds(run[r]) : ~db[i].processed

\* C22  Ordering within a run: no row of a run's snapshot is marked
\* processed before process_contact has been called for every contact of
\* the run; then all ids of the snapshot are marked in one call, whatever
\* the forwards returned, and every row that is marked was forwarded in
\* the run that marked it.
MarkAfterAllForwards == []SnapshotUnmarkedInLoop /\ MarksAfterOwnLoop

\* C26  Frame of a run: a step of run_daily_sync(target) leaves the number
\* of rows as it is and changes a row only by setting its flag, and only if
\* the row was unprocessed and created on target when the run fetched.
RunFrame ==
    [][\A r \in Runs :
        run'[r] # run[r] =>
            /\ Len(db') = Len(db)
            /\ \A i \in 1..Len(db) :
                    db'[i] # db[i] =>
                        /\ db'[i] = [db[i] EXCEPT !.processed = TRUE]
                        /\ i <= Len(run[r].before)
                        /\ ~run[r].before[i]
                        /\ Date(db[i].created_at) = run[r].target]_vars

\* C26 witness: a run for day 1 has returned and has processed the row of
\* day 1; the unprocessed row of day 0 is as it was.
RunFrameWitness ==
    /\ run["manual"].pc = "done" /\ run["manual"].marked
    /\ run["manual"].target = 1
    /\ run["scheduled"].pc = "idle"
    /\ Len(db) = 2
    /\ Date(db[1].created_at) = 0 /\ ~db[1].processed
    /\ Date(db[2].created_at) = 1 /\ db[2].processed

(***************************************************************************)
(* Properties of the summary and of the client's calls (SpecWork).         *)
(***************************************************************************)
\* The distinct normalized emails of a list of rows.
DistinctEmails(intentions) ==
    {Strip(Lower(intentions[k].email)) : k \in 1..Len(intentions)}

\* C24  Summary: a run that has returned has returned a summary for its
\* date in which intentions_found is the number of rows of the snapshot,
\* contacts_processed the number of distinct normalized emails among them,
\* and success + failed = contacts_processed; the loop went over the
\* contacts one by one, and every row of the snapshot was part of exactly
\* one call of process_contact.
SummaryConsistent ==
    /\ [](\A r \in Runs :
            run[r].pc = "done" =>
                /\ run[r].result # <<>>
                /\ LET sum == run[r].result[1]
                   IN  /\ sum.date = run[r].target
                       /\ sum.intentions_found = Len(run[r].intentions)
                       /\ sum.contacts_processed =
                            Cardinality(DistinctEmails(run[r].intentions))
                       /\ sum.success + sum.failed = sum.contacts_processed
                       /\ run[r].idx = sum.contacts_processed
                       /\ \A i \in SnapshotIds(run[r]) : forwarded[i] = 1)
    /\ [][\A r \in Runs :
            run'[r].idx # run[r].idx =>
                \/ /\ run[r].pc = "tally"
                   /\ run'[r].idx = run[r].idx + 1
                   /\ run'[r].contacts = run[r].contacts
                \/ /\ run[r].pc \in {"idle", "done", "raised"}
                   /\ run'[r].idx = 0
                \/ /\ run[r].pc = "fetched"
                   /\ run'[r].idx = 1]_vars

\* C24 witness: a run over two rows that differ in the spelling of the
\* email only has returned 2 rows found, 1 contact, no success and
\* 1 failure.
SummaryWitness ==
    /\ run["scheduled"].pc = "done"
    /\ run["scheduled"].result # <<>>
    /\ run["scheduled"].result[1].intentions_found = 2
    /\ run["scheduled"].result[1].contacts_processed = 1
    /\ run["scheduled"].result[1].success = 0
    /\ run["scheduled"].result[1].failed = 1
    /\ run["scheduled"].intentions[1].email # run["scheduled"].intentions[2].email

\* C23  Backoff schedule: while attempt k of a call is pending the
\* backoff is INITIAL_BACKOFF * 2^(k-1); when the loop sleeps after the
\* failure of attempt k it sleeps that long, whatever failed before, or as
\* long as the Retry-After header says when the failure is a 429 that
\* carries one (the doubling goes on all the same); and every new call
\* starts with attempt 1 and INITIAL_BACKOFF.
BackoffSchedule ==
    /\ [](\A r \in Runs :
            run[r].pc = "request" =>
                run[r].backoff = INITIAL_BACKOFF * 2 ^ (run[r].attempt - 1))
    /\ [][\A r \in Runs :
            /\ \A resp \in Failures :
                (/\ run[r].pc = "request"
                 /\ run'[r] = RespondRun(run[r], resp)
                 /\ run'[r].pc = "request" \/ resp \in {"r429", "r429_hint"}) =>
                    run'[r].wait =
                        IF resp = "r429_hint" THEN RetryAfterHint
                        ELSE INITIAL_BACKOFF * 2 ^ (run[r].attempt - 1)
            /\ (run[r].pc # "request" /\ run'[r].pc = "request") =>
                    /\ run'[r].attempt = 1
                    /\ run'[r].backoff = INITIAL_BACKOFF
                    /\ run'[r].wait = 0]_vars

\* C23 witness: the second call of a contact (add_to_list) is at its third
\* attempt: the first failed on a 429 with a hint, the second on a
\* connection error after which the loop slept 2 seconds.
BackoffWitness ==
    /\ run["scheduled"].pc = "request"
    /\ run["scheduled"].step = "list"
    /\ run["scheduled"].attempt = 3
    /\ run["scheduled"].backoff = 4
    /\ run["scheduled"].wait = 2
    /\ run["scheduled"].seen = {"r429_hint", "conn"}

\* The order of the calls of process_contact.
StepBefore == {<<"upsert", "list">>, <<"upsert", "event">>, <<"list", "event">>}

\* process_contact goes from call to call in the order upsert, list,
\* event, only after a call that returned, and every contact starts with
\* its own upsert.
StepsInOrder ==
    [][\A r \in Runs :
        /\ (run[r].pc = "resume" /\ run'[r].pc = "request") =>
                /\ <<run[r].step, run'[r].step>> \in StepBefore
                /\ run[r].outcome.kind = "return"
                /\ run'[r].idx = run[r].idx
        /\ (run[r].pc = "resume" /\ run[r].outcome.kind = "raise") =>
                run'[r] = run[r]
                    \/ (run'[r].pc = "tally" /\ run'[r].ok = "false")
        /\ (run[r].pc \notin {"request", "resume"}
                /\ run'[r].pc = "request") =>
                /\ run'[r].step = "upsert"
                /\ run'[r].attempt = 1
                /\ ~run'[r].exhausted]_vars

\* A call that used up its attempts on failures ends the contact: no
\* further request of that contact is sent and process_contact returns
\* False.
ExhaustedStepStops ==
    \A r \in Runs :
        run[r].exhausted =>
            /\ run[r].pc \in {"resume", "tally"}
            /\ run[r].pc = "tally" => run[r].ok = "false"

\* C27  Step order: the calls of a contact go out in the order upsert,
\* list, event; after a call that failed through all its attempts no later
\* call of that contact is made and process_contact returns False; the
\* next contact starts with its own upsert all the same.
StepOrderAndStop == StepsInOrder /\ []ExhaustedStepStops

(***************************************************************************)
(* Properties of the status query (SpecHealth).                            *)
(***************************************************************************)
\* The probe got a response that is neither a rate limit nor an error.
ProbeSucceeded == \E k \in 1..Len(health.seen) : health.seen[k] \notin Failures

\* All MAX_RETRIES attempts of the probe failed.
ProbeExhausted ==
    /\ Len(health.seen) = MAX_RETRIES
    /\ \A k \in 1..MAX_RETRIES : health.seen[k] \in Failures

\* No step of the status query writes the table.
HealthReadOnly == [][health' # health => db' = db]_vars

\* check_connection says "connected" only after a successful response and
\* "error" after MAX_RETRIES failed attempts.
ProbeFaithful ==
    /\ health.klaviyo = "connected" => ProbeSucceeded
    /\ (health.pc \in {"count", "total", "done"} /\ ProbeExhausted) =>
            health.klaviyo = "error"

\* C28  The status query is read-only on the buffer, and check_connection
\* returns "connected" only if some attempt of its probe got a successful
\* response and "error" when all MAX_RETRIES attempts failed.
StatusQueryFaithful == HealthReadOnly /\ []ProbeFaithful

=============================================================================
